---------------------------- MODULE Spec2Model ----------------------------
(***************************************************************************)
(* Syllabus-to-calendar service: the parsing orchestrator                  *)
(* (SyllabusParserService), the model-assisted extractor                   *)
(* (LLMParserService), the date resolver (DateParserService) and the       *)
(* calendar sync adapter (GoogleCalendarService).                          *)
(*                                                                         *)
(* Representation.  A string is a sequence of words; the words of a        *)
(* string are joined by one space each.  A Date is a record                *)
(* [valid, t] with t in minutes since 1970-01-01T00:00Z; the server's      *)
(* local time zone is UTC.  A missing value (null, undefined, an absent    *)
(* JSON field) is NULL where a string is expected, NullDate where a Date   *)
(* is expected, Undefined where one of a few fixed tags is expected, and   *)
(* None where a number is expected.                                        *)
(***************************************************************************)
EXTENDS Integers, Sequences, FiniteSets, TLC

NULL == <<"<null>">>
Undefined == "undefined"
None == [present |-> FALSE, value |-> 0]
Some(n) == [present |-> TRUE, value |-> n]

(***************************************************************************)
(* Bounds of the model.                                                    *)
(***************************************************************************)
MaxWords == 2      \* words in an uploaded text
MaxEntries == 2    \* entries of a model response, all three lists together
MaxEvents == 3     \* events handed to one syncEvents call

(***************************************************************************)
(* Generic helpers on sequences.                                           *)
(***************************************************************************)
RECURSIVE SeqsUpTo(_, _)
SeqsUpTo(S, n) ==
  IF n = 0 THEN {<<>>}
  ELSE LET shorter == SeqsUpTo(S, n - 1)
       IN  shorter \cup {Append(s, x) : s \in {q \in shorter : Len(q) = n - 1}, x \in S}

\* F applied to the value of v, v worked out once
Bind(v, F(_)) == CHOOSE out \in {F(x) : x \in {v}} : TRUE

Range(s) == {s[i] : i \in 1..Len(s)}

\* Variant of the sort that leaves the events in the order they were built.
SortByDate_Unsorted(s) == s

\* events.sort((a, b) => a.date.getTime() - b.date.getTime()).  The sort
\* is stable: element i comes out after every element with an earlier date
\* and after every earlier element with the same date.
SortByDate(s) ==
  LET pos(i) == Cardinality({j \in 1..Len(s) :
                     s[j].date.t < s[i].date.t \/ (s[j].date.t = s[i].date.t /\ j < i)}) + 1
  IN  [k \in 1..Len(s) |-> s[CHOOSE i \in 1..Len(s) : pos(i) = k]]

(***************************************************************************)
(* Dates.                                                                  *)
(***************************************************************************)
IsLeap(y) == (y % 4 = 0 /\ y % 100 # 0) \/ y % 400 = 0

DaysInMonth(y, m) ==
  IF m = 2 THEN (IF IsLeap(y) THEN 29 ELSE 28)
  ELSE IF m \in {4, 6, 9, 11} THEN 30 ELSE 31

RECURSIVE DaysBeforeMonth(_, _)
DaysBeforeMonth(y, m) ==
  IF m = 1 THEN 0 ELSE DaysBeforeMonth(y, m - 1) + DaysInMonth(y, m - 1)

\* days from 1970-01-01 to January 1st of year y (y >= 1970)
DaysBeforeYear(y) ==
  LET n == y - 1
      leaps(k) == (k \div 4) - (k \div 100) + (k \div 400)
  IN  365 * (y - 1970) + leaps(n) - leaps(1969)

\* MakeDay: the day number of y-m-d; a day past the end of the month runs
\* on into the next month.
DayNumber(y, m, d) == DaysBeforeYear(y) + DaysBeforeMonth(y, m) + (d - 1)

NullDate == [null |-> TRUE]
InvalidDate == [valid |-> FALSE, t |-> 0]
DateAt(day) == [valid |-> TRUE, t |-> day * 1440]

\* Date.prototype.toISOString().split('T')[0]; throws RangeError on an
\* Invalid Date.  The day number stands for the YYYY-MM-DD text.
Thrown(name) == [threw |-> TRUE, error |-> name]
Returned(v) == [threw |-> FALSE, value |-> v]

\* Variant of toISOString that formats an Invalid Date instead of throwing.
ToISODay_Lenient(date) == Returned(date.t \div 1440)

ToISODay(date) ==
  IF date.valid THEN Returned(date.t \div 1440)
  ELSE Thrown("RangeError: Invalid time value")


(***************************************************************************)
(* Words.  The texts of the model are built from these words; each has    *)
(* its length in characters, which is what RegExp.lastIndex counts.        *)
(***************************************************************************)
TextWords == {"homework 2", "final exam", "03/10/2024"}

WordLen(w) ==
  CASE w = "homework 2" -> 10
    [] w = "final exam" -> 10
    [] w = "due on" -> 6
    [] w = "03/10/2024" -> 10
    [] w = "3/10/2024" -> 9
    [] w = "12/01/2025" -> 10
    [] w = "13/45/2024" -> 10
    [] w = "week 3" -> 6
    [] w = "Week 3" -> 6
    [] w = "week 20000000" -> 13
    [] w = "\n" -> 1
    [] w = "long paragraph" -> 500
    [] OTHER -> 0

\* the texts of at most MaxWords words
Texts == SeqsUpTo(TextWords, MaxWords)

\* a few texts: empty, a dated assignment, a week number out of the range
\* of Date, two dated lines, a line whose later date has the higher
\* confidence and which repeats a week in another case and carries a slash
\* date that is no date, a line that writes one day in two ways, a dated
\* assignment followed by a paragraph of 500 characters
SampleTexts ==
  {<<>>,
   <<"homework 2", "03/10/2024">>,
   <<"homework 2", "week 20000000">>,
   <<"final exam", "03/10/2024", "\n", "homework 2", "week 3">>,
   <<"homework 2", "Week 3", "12/01/2025", "week 3", "13/45/2024">>,
   <<"homework 2", "03/10/2024", "3/10/2024">>,
   <<"homework 2", "03/10/2024", "long paragraph">>}

\* offset of word i in the joined string
RECURSIVE WordStart(_, _)
WordStart(line, i) ==
  IF i = 1 THEN 0 ELSE WordStart(line, i - 1) + WordLen(line[i - 1]) + 1

WordEnd(line, i) == WordStart(line, i) + WordLen(line[i])

StrLen(line) == IF line = <<>> THEN 0 ELSE WordEnd(line, Len(line))

(***************************************************************************)
(* The static pattern families of SyllabusParserService.  A pattern is    *)
(* named by its leading keyword; all carry the flags g and i, so each     *)
(* RegExp object keeps a lastIndex across calls of test().                 *)
(***************************************************************************)
ASSIGNMENT_PATTERNS ==
  <<"assignment", "homework", "hw", "problem set", "ps", "paper", "essay",
    "project", "memo", "brief">>

EXAM_PATTERNS == <<"midterm", "final", "exam", "test", "quiz">>

READING_PATTERNS == <<"read chapter", "reading", "case", "article", "textbook">>

DEADLINE_PATTERNS == <<"due", "deadline", "submit", "turn in", "hand in">>

Patterns ==
  Range(ASSIGNMENT_PATTERNS) \cup Range(EXAM_PATTERNS)
    \cup Range(READING_PATTERNS) \cup Range(DEADLINE_PATTERNS)

\* the pattern matches inside the word (the match is the whole word)
PatternMatchesWord(p, w) ==
  \/ p = "homework" /\ w = "homework 2"       \* /homework\s*#?\s*(\d+)/gi
  \/ p = "final" /\ w = "final exam"          \* /final\s*(exam)?/gi
  \/ p = "due" /\ w = "due on"                \* /due\s+(by|on|at)/gi

\* RegExp.prototype.test on a global regex: the search starts at lastIndex;
\* a match leaves lastIndex at the end of the match, a failure resets it
\* to 0.  Returns [found, lastIndex].
RegExpTest(p, line, lastIdx) ==
  LET hits == {i \in 1..Len(line) :
                 PatternMatchesWord(p, line[i]) /\ WordStart(line, i) >= lastIdx}
  IN  IF hits = {} THEN [found |-> FALSE, lastIndex |-> 0]
      ELSE LET i == CHOOSE k \in hits : \A j \in hits : k <= j
           IN  [found |-> TRUE, lastIndex |-> WordEnd(line, i)]

\* Array.prototype.some(pattern => pattern.test(line)) over one family:
\* the patterns are tested in order up to the first that matches; the ones
\* after it are not touched.  Returns [found, li] with li the lastIndex of
\* every pattern afterwards.
RECURSIVE SomeTest(_, _, _)
SomeTest(family, line, li) ==
  IF family = <<>> THEN [found |-> FALSE, li |-> li]
  ELSE Bind(RegExpTest(Head(family), line, li[Head(family)]),
            LAMBDA r :
              Bind([li EXCEPT ![Head(family)] = r.lastIndex],
                   LAMBDA li2 :
                     IF r.found THEN [found |-> TRUE, li |-> li2]
                     ELSE SomeTest(Tail(family), line, li2)))


(***************************************************************************)
(* DateParserService.                                                      *)
(***************************************************************************)
\* the clock: new Date()
Now == DateAt(DayNumber(2025, 1, 6))
NowYear == 2025

\* String.prototype.toLowerCase on a word
ToLowerCase(w) ==
  CASE w = "Week 3" -> "week 3"
    [] w = "Homework 2" -> "homework 2"
    [] w = "Essay 1" -> "essay 1"
    [] w = "Email draft" -> "email draft"
    [] w = "Midterm" -> "midterm"
    [] w = "Read ch 1" -> "read ch 1"
    [] w = "Office hours" -> "office hours"
    [] w = "High" -> "high"
    [] OTHER -> w

\* date-fns parse(word, format, referenceDate) over DATE_FORMATS, in order:
\* the first format that yields a valid date.
ParseWithFormats(w) ==
  CASE w \in {"03/10/2024", "3/10/2024"} ->
         [ok |-> TRUE, format |-> "MM/dd/yyyy", date |-> DateAt(DayNumber(2024, 3, 10))]
    [] w = "12/01/2025" ->
         [ok |-> TRUE, format |-> "MM/dd/yyyy", date |-> DateAt(DayNumber(2025, 12, 1))]
    [] OTHER -> [ok |-> FALSE]

\* the number captured by the first of RELATIVE_PATTERNS that matches
\* (week, day, class, session)
RelativeNumber(w) ==
  CASE w \in {"week 3", "Week 3"} -> Some(3)
    [] w = "week 20000000" -> Some(20000000)
    [] OTHER -> None

\* date-fns addWeeks(date, n) = setDate(getDate() + 7 * n); a time value
\* further than 100,000,000 days from the epoch is NaN (TimeClip).
addWeeks(date, n) ==
  LET day == (date.t \div 1440) + 7 * n
  IN  IF ~date.valid \/ day > 100000000 \/ day < -100000000 THEN InvalidDate
      ELSE [valid |-> TRUE, t |-> date.t + 7 * n * 1440]

parseRelativeDate(dateString, referenceDate) ==
  IF ~RelativeNumber(dateString).present THEN [matched |-> FALSE]
  ELSE [matched |-> TRUE,
        date |-> addWeeks(referenceDate, RelativeNumber(dateString).value - 1),
        confidence |-> "medium",
        originalText |-> dateString,
        parsedFormat |-> "relative"]

\* new Date(word) of the native fallback: none of the words that reach it
\* is a date the engine recognises
NativeDate(w) == InvalidDate

parseDate(dateString, referenceDate) ==
  IF ParseWithFormats(dateString).ok
  THEN [date |-> ParseWithFormats(dateString).date,
        confidence |-> "high",
        originalText |-> dateString,
        parsedFormat |-> ParseWithFormats(dateString).format]
  ELSE IF parseRelativeDate(dateString, referenceDate).matched
  THEN [date |-> parseRelativeDate(dateString, referenceDate).date,
        confidence |-> "medium",
        originalText |-> dateString,
        parsedFormat |-> "relative"]
  ELSE IF NativeDate(dateString).valid
  THEN [date |-> NativeDate(dateString),
        confidence |-> "medium",
        originalText |-> dateString,
        parsedFormat |-> "native"]
  ELSE [date |-> NullDate,
        confidence |-> "low",
        originalText |-> dateString,
        parsedFormat |-> Undefined]

\* which of the five datePatterns of extractDates matches the word (0: none)
DatePatternOf(w) ==
  CASE w \in {"03/10/2024", "3/10/2024", "12/01/2025", "13/45/2024"} -> 1
    [] w \in {"week 3", "week 20000000", "Week 3"} -> 5
    [] OTHER -> 0

\* the matches of all patterns in the order the loops find them: pattern by
\* pattern, left to right within a pattern
RECURSIVE MatchesFrom(_, _)
MatchesFrom(text, k) ==
  IF k > 5 THEN <<>>
  ELSE SelectSeq(text, LAMBDA w : DatePatternOf(w) = k) \o MatchesFrom(text, k + 1)

confidenceOrder(c) == CASE c = "high" -> 3 [] c = "medium" -> 2 [] OTHER -> 1

\* the comparator of the final sort; a NaN difference counts as 0
CompareDateResults(a, b) ==
  IF a.confidence # b.confidence
  THEN confidenceOrder(b.confidence) - confidenceOrder(a.confidence)
  ELSE IF a.date # NullDate /\ b.date # NullDate /\ a.date.valid /\ b.date.valid
       THEN a.date.t - b.date.t
       ELSE 0

\* insertion of x into a sorted prefix: x passes the elements that compare
\* greater, from the right
RECURSIVE InsertDateResult(_, _)
InsertDateResult(sorted, x) ==
  IF sorted = <<>> THEN <<x>>
  ELSE IF CompareDateResults(sorted[Len(sorted)], x) > 0
       THEN Append(InsertDateResult(SubSeq(sorted, 1, Len(sorted) - 1), x),
                   sorted[Len(sorted)])
       ELSE Append(sorted, x)

RECURSIVE SortDateResults(_)
SortDateResults(s) ==
  IF s = <<>> THEN <<>>
  ELSE InsertDateResult(SortDateResults(SubSeq(s, 1, Len(s) - 1)), s[Len(s)])

\* Variant of the loop that does not look at seenDates.
RECURSIVE CollectDates_NoDedupe(_, _, _, _)
CollectDates_NoDedupe(matches, seenDates, foundDates, referenceDate) ==
  IF matches = <<>> THEN foundDates
  ELSE LET result == parseDate(Head(matches), referenceDate)
       IN  CollectDates_NoDedupe(Tail(matches), seenDates,
                                 IF result.date # NullDate THEN Append(foundDates, result)
                                 ELSE foundDates,
                                 referenceDate)

\* the loop over the matches: a match whose lower-cased text was seen is
\* skipped; a result is kept when result.date is truthy (an Invalid Date
\* object is truthy, null is not)
RECURSIVE CollectDates(_, _, _, _)
CollectDates(matches, seenDates, foundDates, referenceDate) ==
  IF matches = <<>> THEN foundDates
  ELSE LET dateString == Head(matches)
           result == parseDate(dateString, referenceDate)
       IN  IF ToLowerCase(dateString) \in seenDates
           THEN CollectDates(Tail(matches), seenDates, foundDates, referenceDate)
           ELSE CollectDates(Tail(matches),
                             seenDates \cup {ToLowerCase(dateString)},
                             IF result.date # NullDate THEN Append(foundDates, result)
                             ELSE foundDates,
                             referenceDate)

extractDates(text, referenceDate) ==
  SortDateResults(CollectDates(MatchesFrom(text, 1), {}, <<>>, referenceDate))


(***************************************************************************)
(* SyllabusParserService: the deterministic extractor.                     *)
(***************************************************************************)
NoData == [null |-> TRUE]

\* course metadata a caller may pass; year 0 stands for an omitted year
Metas ==
  {[courseName |-> NULL, courseCode |-> NULL, semester |-> NULL, year |-> 0],
   [courseName |-> <<"Torts">>, courseCode |-> <<"LAW101">>,
    semester |-> <<"Fall">>, year |-> 2024]}

\* the text is digits only (a page number)
IsNumberLine(text) == Len(text) = 1 /\ text[1] \in {"12"}

RECURSIVE TrimEmpty(_)
TrimEmpty(text) ==
  IF text = <<>> THEN <<>>
  ELSE IF Head(text) = "" THEN TrimEmpty(Tail(text))
  ELSE IF text[Len(text)] = "" THEN TrimEmpty(SubSeq(text, 1, Len(text) - 1))
  ELSE text

\* Variant of cleanText that leaves the line breaks in the text.
cleanText_KeepLines(text) ==
  LET unnumbered == IF IsNumberLine(text) THEN <<>> ELSE text
      unpaged == [i \in 1..Len(unnumbered) |->
                    IF unnumbered[i] = "Page 1 of 2" THEN "" ELSE unnumbered[i]]
  IN  TrimEmpty(unpaged)

\* every run of whitespace, line breaks included, becomes one space; a
\* text that is only a number is emptied; "Page N of M" is cut out, which
\* leaves the spaces around it; the later line-ending rules find no line
\* ending any more; trim
cleanText(text) ==
  LET spaced == SelectSeq(text, LAMBDA w : w # "\n")
      unnumbered == IF IsNumberLine(spaced) THEN <<>> ELSE spaced
      unpaged == [i \in 1..Len(unnumbered) |->
                    IF unnumbered[i] = "Page 1 of 2" THEN "" ELSE unnumbered[i]]
  IN  TrimEmpty(unpaged)

\* the capture of the course-name / course-code / semester / year regexes
\* of extractCourseInfo in the text: none of the words carries such a label
CourseMatch(text, label) == NULL

extractCourseInfo(text, courseName, courseCode, semester, year) ==
  LET or(a, b) == IF a # NULL /\ a # <<>> THEN a ELSE b
  IN  IF courseName # NULL /\ courseName # <<>> /\ courseCode # NULL /\ courseCode # <<>>
      THEN [courseName |-> courseName, courseCode |-> courseCode,
            semester |-> semester, year |-> year]
      ELSE [courseName |-> or(courseName, or(CourseMatch(text, "course name"), <<"Unknown", "Course">>)),
            courseCode |-> or(courseCode, or(CourseMatch(text, "course code"), <<"UNKNOWN">>)),
            semester |-> or(semester, or(CourseMatch(text, "semester"), <<"Unknown">>)),
            year |-> IF year # 0 THEN year ELSE NowYear]

\* String.prototype.split('\n'), each piece trimmed of the spaces that
\* surrounded the line break
RECURSIVE SplitLines(_)
SplitLines(text) ==
  IF \A i \in 1..Len(text) : text[i] # "\n" THEN <<text>>
  ELSE LET k == CHOOSE i \in 1..Len(text) :
                  text[i] = "\n" /\ \A j \in 1..(i - 1) : text[j] # "\n"
       IN  <<SubSeq(text, 1, k - 1)>> \o SplitLines(SubSeq(text, k + 1, Len(text)))

LowerLine(line) == [i \in 1..Len(line) |-> ToLowerCase(line[i])]

\* line.toLowerCase().includes(originalText.toLowerCase())
LineIncludes(line, originalText) ==
  \E i \in 1..Len(line) : ToLowerCase(line[i]) = ToLowerCase(originalText)

\* the leading "assignment:", "hw:", ... label of a title, removed
StripPrefix(title) ==
  IF title # <<>> /\ Head(title) = "hw:" THEN Tail(title) ELSE title

\* a word that the two date-removing regexes of cleanEventTitle match:
\* a slash date or "Month D, YYYY"
IsTitleDate(w) ==
  w \in {"03/10/2024", "3/10/2024", "12/01/2025", "13/45/2024", "March 15, 2024"}

cleanEventTitle(title) ==
  SelectSeq(StripPrefix(title), LAMBDA w : ~IsTitleDate(w) /\ w # "")

\* toLowerCase, white space to "-", everything but a-z, 0-9 and "-" dropped
SlugWord(w) ==
  CASE ToLowerCase(w) = "homework 2" -> "homework-2"
    [] ToLowerCase(w) = "due on" -> "due-on"
    [] ToLowerCase(w) = "final exam" -> "final-exam"
    [] ToLowerCase(w) = "week 3" -> "week-3"
    [] ToLowerCase(w) = "week 20000000" -> "week-20000000"
    [] ToLowerCase(w) = "essay 1" -> "essay-1"
    [] ToLowerCase(w) = "email draft" -> "email-draft"
    [] ToLowerCase(w) = "read ch 1" -> "read-ch-1"
    [] ToLowerCase(w) = "office hours" -> "office-hours"
    [] OTHER -> ToLowerCase(w)

generateEventId(title, date) ==
  IF ToISODay(date).threw THEN ToISODay(date)
  ELSE Returned([titleHash |-> [i \in 1..Len(title) |-> SlugWord(title[i])],
                 dateStr |-> ToISODay(date).value])

\* Returns [threw, value | error, li]: the event, and the lastIndex of
\* every static pattern after the tests.
\* the if / else-if chain of parseEventFromLine over the four families:
\* a family is tested only when the ones before it found nothing
ClassifyLine(lowerLine, li) ==
  Bind(SomeTest(ASSIGNMENT_PATTERNS, lowerLine, li), LAMBDA a :
    IF a.found THEN [type |-> "assignment", priority |-> "high", li |-> a.li]
    ELSE Bind(SomeTest(EXAM_PATTERNS, lowerLine, a.li), LAMBDA e :
      IF e.found THEN [type |-> "exam", priority |-> "urgent", li |-> e.li]
      ELSE Bind(SomeTest(READING_PATTERNS, lowerLine, e.li), LAMBDA r :
        IF r.found THEN [type |-> "reading", priority |-> "medium", li |-> r.li]
        ELSE Bind(SomeTest(DEADLINE_PATTERNS, lowerLine, r.li), LAMBDA d :
          IF d.found THEN [type |-> "deadline", priority |-> "high", li |-> d.li]
          ELSE [type |-> "other", priority |-> "medium", li |-> d.li]))))

parseEventFromLine(line, dateResult, li) ==
  Bind(ClassifyLine(LowerLine(TrimEmpty(line)), li), LAMBDA class :
    LET cleanLine == TrimEmpty(line)
        title == cleanEventTitle(cleanLine)
        id == generateEventId(title, dateResult.date)
    IN  IF id.threw THEN [threw |-> TRUE, error |-> id.error, li |-> class.li]
        ELSE [threw |-> FALSE,
              value |-> [id |-> id.value,
                         title |-> title,
                         description |-> cleanLine,
                         date |-> dateResult.date,
                         time |-> NULL,
                         type |-> class.type,
                         priority |-> class.priority,
                         completed |-> FALSE],
              li |-> class.li])

\* Variant of deduplicateEvents that keeps every event.
deduplicateEvents_KeepAll(events) == events

deduplicateEvents(events) ==
  LET keep == {i \in 1..Len(events) : \A j \in 1..(i - 1) : events[j].id # events[i].id}
      RECURSIVE pick(_)
      pick(i) == IF i > Len(events) THEN <<>>
                 ELSE IF i \in keep THEN <<events[i]>> \o pick(i + 1)
                 ELSE pick(i + 1)
  IN  pick(1)

\* the (dateResult, line) pairs in the order the two nested loops reach them
RECURSIVE EventWork(_, _)
EventWork(dateResults, lines) ==
  IF dateResults = <<>> THEN <<>>
  ELSE LET dr == Head(dateResults)
           relevantLines == SelectSeq(lines, LAMBDA l : LineIncludes(l, dr.originalText))
       IN  [i \in 1..Len(relevantLines) |-> [line |-> relevantLines[i], dateResult |-> dr]]
             \o EventWork(Tail(dateResults), lines)

RECURSIVE PushEvents(_, _, _)
PushEvents(work, events, li) ==
  IF work = <<>> THEN [threw |-> FALSE, value |-> events, li |-> li]
  ELSE Bind(parseEventFromLine(Head(work).line, Head(work).dateResult, li), LAMBDA ev :
         IF ev.threw THEN ev
         ELSE Bind(Append(events, ev.value), LAMBDA pushed :
                PushEvents(Tail(work), pushed, ev.li)))

extractEvents(text, dateResults, li) ==
  Bind(PushEvents(EventWork(dateResults, SplitLines(text)), <<>>, li), LAMBDA pushed :
    IF pushed.threw THEN pushed
    ELSE [threw |-> FALSE,
          value |-> SortByDate(deduplicateEvents(pushed.value)),
          li |-> pushed.li,
          built |-> pushed.value])

Min(a, b) == IF a < b THEN a ELSE b
Max(a, b) == IF a > b THEN a ELSE b

\* Variant of calculateConfidence without the penalty for a short text.
calculateConfidence_NoPenalty(events, dateResults, text) ==
  LET validDates == Len(SelectSeq(dateResults, LAMBDA d : d.date # NullDate))
      highConfidenceDates == Len(SelectSeq(dateResults, LAMBDA d : d.confidence = "high"))
      uniqueTypes == Cardinality({events[i].type : i \in 1..Len(events)})
      score == Min(validDates * 10, 30) + Min(Len(events) * 5, 25)
                 + Min(highConfidenceDates * 5, 20) + uniqueTypes * 5
  IN  Max(0, Min(100, score))

calculateConfidence(events, dateResults, text) ==
  LET validDates == Len(SelectSeq(dateResults, LAMBDA d : d.date # NullDate))
      highConfidenceDates == Len(SelectSeq(dateResults, LAMBDA d : d.confidence = "high"))
      uniqueTypes == Cardinality({events[i].type : i \in 1..Len(events)})
      score == Min(validDates * 10, 30) + Min(Len(events) * 5, 25)
                 + Min(highConfidenceDates * 5, 20) + uniqueTypes * 5
                 - (IF StrLen(text) < 500 THEN 20 ELSE 0)
  IN  Max(0, Min(100, score))


\* the body of the try block of parseSyllabusWithRegex; the completion
\* carries, next to the value or the error, the lastIndex of the static
\* patterns, the dateResults the body worked on and, when it did not
\* throw, the events in the order the loops of extractEvents built them
RegexBody(text, courseName, courseCode, semester, year, li) ==
  Bind(cleanText(text), LAMBDA clean :
    Bind(extractCourseInfo(clean, courseName, courseCode, semester, year), LAMBDA courseInfo :
      Bind(extractDates(clean, Now), LAMBDA dateResults :
        Bind(extractEvents(clean, dateResults, li), LAMBDA events :
          IF events.threw
          THEN [threw |-> TRUE, error |-> events.error, li |-> events.li,
                dates |-> dateResults]
          ELSE [threw |-> FALSE,
                value |-> [success |-> TRUE,
                           data |-> [courseName |-> courseInfo.courseName,
                                     courseCode |-> courseInfo.courseCode,
                                     semester |-> courseInfo.semester,
                                     year |-> courseInfo.year,
                                     events |-> events.value,
                                     rawText |-> text,
                                     parsedAt |-> Now],
                           error |-> Undefined,
                           confidence |-> calculateConfidence(events.value, dateResults, clean),
                           method |-> "regex"],
                li |-> events.li,
                dates |-> dateResults,
                built |-> events.built]))))

\* Variant of parseSyllabusWithRegex without its try/catch.
parseSyllabusWithRegex_NoCatch(text, courseName, courseCode, semester, year, li) ==
  RegexBody(text, courseName, courseCode, semester, year, li)

\* Returns the completion [threw, value, li, dates] of the call.
parseSyllabusWithRegex(text, courseName, courseCode, semester, year, li) ==
  Bind(RegexBody(text, courseName, courseCode, semester, year, li), LAMBDA body :
    IF body.threw
    THEN [threw |-> FALSE,
          value |-> [success |-> FALSE,
                     data |-> NoData,
                     error |-> body.error,
                     confidence |-> 0,
                     method |-> "fallback"],
          li |-> body.li,
          dates |-> body.dates]
    ELSE body)

(***************************************************************************)
(* LLMParserService.                                                       *)
(***************************************************************************)
\* the keywords of the administrative filter that occur in a lower-cased
\* word
KeywordsIn(w) ==
  CASE w = "email draft" -> {"email"}
    [] w = "see email" -> {"email"}
    [] w = "attendance policy" -> {"policy"}
    [] w = "office hours" -> {"office hours"}
    [] OTHER -> {}

\* String.prototype.includes(keyword) on a lower-cased string
Includes(str, kw) == \E i \in 1..Len(str) : kw \in KeywordsIn(str[i])

\* the fields of a text of the shape ^\d{4}-\d{2}-\d{2}$
IsoFields(w) ==
  CASE w = "2024-03-10" -> [shape |-> TRUE, y |-> 2024, m |-> 3, d |-> 10]
    [] w = "2024-02-30" -> [shape |-> TRUE, y |-> 2024, m |-> 2, d |-> 30]
    [] w = "2024-13-01" -> [shape |-> TRUE, y |-> 2024, m |-> 13, d |-> 1]
    [] w = "2100-01-01" -> [shape |-> TRUE, y |-> 2100, m |-> 1, d |-> 1]
    [] w = "2099-12-31" -> [shape |-> TRUE, y |-> 2099, m |-> 12, d |-> 31]
    [] OTHER -> [shape |-> FALSE, y |-> 0, m |-> 0, d |-> 0]

\* new Date(string).  An ISO date is accepted when its month is 1..12 and
\* its day 1..31; a day past the end of its month runs on into the next
\* month.  Of the other texts only the slash date is recognised.
NewDate(str) ==
  IF str = NULL \/ Len(str) # 1 THEN InvalidDate
  ELSE LET f == IsoFields(str[1])
       IN  IF f.shape
           THEN IF f.m \in 1..12 /\ f.d \in 1..31
                THEN DateAt(DayNumber(f.y, f.m, f.d)) ELSE InvalidDate
           ELSE IF str[1] = "03/10/2024" THEN DateAt(DayNumber(2024, 3, 10))
           ELSE InvalidDate

\* the placeholder markers: the text includes "XX", "TBD" or "TBA"
HasPlaceholder(str) == \E i \in 1..Len(str) : str[i] \in {"TBD", "TBA", "2024-XX-XX"}

validateDate(dateStr) ==
  IF dateStr = NULL \/ dateStr = <<>> THEN FALSE
  ELSE IF HasPlaceholder(dateStr) THEN FALSE
  ELSE NewDate(dateStr).valid /\ Len(dateStr) = 1 /\ IsoFields(dateStr[1]).shape

Or(a, b) == IF a # NULL /\ a # <<>> THEN a ELSE b

\* Variant of the required-fields test that forgets the activities list.
MissingRequired_NoActivities(parsed) ==
  ~parsed.assignments.present \/ ~parsed.exams.present

\* the required-fields test of parseLLMResponse
MissingRequired(parsed) ==
  ~parsed.assignments.present \/ ~parsed.exams.present \/ ~parsed.activities.present

\* parsed.activities || []
Items(list) == IF list.present THEN list.items ELSE <<>>

demoteAssignment(assignment) ==
  [title |-> assignment.title,
   details |-> Or(assignment.details, <<"Due date:">> \o assignment.due_date),
   type |-> <<"other">>,
   priority |-> Or(assignment.priority, <<"medium">>)]

demoteExam(exam) ==
  [title |-> exam.title,
   details |-> Or(exam.details, <<"Exam date:">> \o exam.date),
   type |-> <<"other">>,
   priority |-> Or(exam.priority, <<"medium">>)]

\* Variant of JSON.parse that closes a text that was cut off and reads it
\* as an object with three empty lists.
JSONParse_Repairing(response) ==
  IF response.kind = "malformed" THEN Thrown("SyntaxError")
  ELSE IF response.kind = "truncated"
  THEN Returned([kind |-> "json",
                 body |-> [response.body EXCEPT !.assignments = [present |-> TRUE, items |-> <<>>],
                                                !.exams = [present |-> TRUE, items |-> <<>>],
                                                !.activities = [present |-> TRUE, items |-> <<>>]]])
  ELSE Returned([kind |-> response.kind, body |-> response.body])

\* JSON.parse(response): a text that is no JSON, or the text of an object
\* cut off before its end, throws SyntaxError; the texts null and [] are
\* JSON.  Returns the completion [threw, value | error].
JSONParse(response) ==
  IF response.kind \in {"malformed", "truncated"} THEN Thrown("SyntaxError")
  ELSE Returned([kind |-> response.kind, body |-> response.body])

\* Returns [success, data, error].
parseLLMResponse(response) ==
  IF response.kind = "empty"
  THEN [success |-> FALSE, data |-> NoData, error |-> "No content in LLM response"]
  ELSE IF JSONParse(response).threw
  THEN [success |-> FALSE, data |-> NoData, error |-> "Invalid JSON response from LLM"]
  ELSE IF JSONParse(response).value.kind = "jsonNull"
  THEN [success |-> FALSE, data |-> NoData, error |-> "Failed to parse LLM response: TypeError"]
  ELSE IF JSONParse(response).value.kind = "jsonArray"
  THEN [success |-> FALSE, data |-> NoData,
        error |-> "Missing required fields in LLM response"]
  ELSE LET parsed == JSONParse(response).value.body
       IN  IF MissingRequired(parsed)
           THEN [success |-> FALSE, data |-> NoData,
                 error |-> "Missing required fields in LLM response"]
           ELSE IF ~parsed.assignments.present \/ ~parsed.exams.present
           THEN [success |-> FALSE, data |-> NoData,
                 error |-> "Failed to parse LLM response: TypeError"]
           ELSE LET badA == SelectSeq(parsed.assignments.items,
                                      LAMBDA a : ~validateDate(a.due_date))
                    badE == SelectSeq(parsed.exams.items, LAMBDA e : ~validateDate(e.date))
                    invalidAssignments == [i \in 1..Len(badA) |-> demoteAssignment(badA[i])]
                    invalidExams == [i \in 1..Len(badE) |-> demoteExam(badE[i])]
                IN  [success |-> TRUE,
                     data |-> [assignments |->
                                 SelectSeq(parsed.assignments.items,
                                           LAMBDA a : validateDate(a.due_date)),
                               exams |->
                                 SelectSeq(parsed.exams.items, LAMBDA e : validateDate(e.date)),
                               activities |->
                                 Items(parsed.activities) \o invalidAssignments \o invalidExams,
                               course_info |-> parsed.course_info,
                               confidence_score |-> parsed.confidence_score],
                     error |-> Undefined]


mapPriority(priority) ==
  IF priority = NULL \/ Len(priority) # 1 THEN "medium"
  ELSE CASE ToLowerCase(priority[1]) = "urgent" -> "urgent"
         [] ToLowerCase(priority[1]) = "high" -> "high"
         [] ToLowerCase(priority[1]) = "medium" -> "medium"
         [] ToLowerCase(priority[1]) = "low" -> "low"
         [] OTHER -> "medium"

\* new Date(text + 'T00:00:00'): midnight local time, which is midnight UTC
\* in the server's zone
LocalMidnight(str) == NewDate(str)

\* new Date('2099-12-31')
placeholderDate == NewDate(<<"2099-12-31">>)

AdminTitleKeywords ==
  {"office hours", "email", "class time", "conference", "blackboard", "twen",
   "absence", "policy"}

AdminDetailKeywords == {"office hours", "email", "class time"}

\* the administrative filter on an activity
IsAdministrative(activity) ==
  LET title == LowerLine(activity.title)
      description == LowerLine(Or(activity.details, <<>>))
  IN  \/ \E k \in AdminTitleKeywords : Includes(title, k)
      \/ \E k \in AdminDetailKeywords : Includes(description, k)

assignmentEvent(assignment) ==
  [id |-> generateEventId(assignment.title, NewDate(assignment.due_date)).value,
   title |-> assignment.title,
   description |-> assignment.details,
   date |-> LocalMidnight(assignment.due_date),
   time |-> NULL,
   type |-> "assignment",
   priority |-> mapPriority(assignment.priority),
   completed |-> FALSE]

examEvent(exam) ==
  [id |-> generateEventId(exam.title, NewDate(exam.date)).value,
   title |-> exam.title,
   description |-> exam.details,
   date |-> LocalMidnight(exam.date),
   time |-> exam.time,
   type |-> "exam",
   priority |-> mapPriority(exam.priority),
   completed |-> FALSE]

activityEvent(activity) ==
  [id |-> generateEventId(activity.title, placeholderDate).value,
   title |-> activity.title,
   description |-> activity.details,
   date |-> placeholderDate,
   time |-> NULL,
   type |-> IF activity.type = <<"reading">> THEN "reading" ELSE "other",
   priority |-> mapPriority(activity.priority),
   completed |-> FALSE]

\* Returns the completion [threw, value | error]: title.toLowerCase() on an
\* entry without a title throws.
convertToCalendarEvents(llmData) ==
  IF \/ \E i \in 1..Len(llmData.assignments) : llmData.assignments[i].title = NULL
     \/ \E i \in 1..Len(llmData.exams) : llmData.exams[i].title = NULL
     \/ \E i \in 1..Len(llmData.activities) : llmData.activities[i].title = NULL
  THEN Thrown("TypeError: Cannot read properties of undefined")
  ELSE LET kept == SelectSeq(llmData.activities, LAMBDA a : ~IsAdministrative(a))
       IN  Returned(SortByDate(
             [i \in 1..Len(llmData.assignments) |-> assignmentEvent(llmData.assignments[i])]
               \o [i \in 1..Len(llmData.exams) |-> examEvent(llmData.exams[i])]
               \o [i \in 1..Len(kept) |-> activityEvent(kept[i])]))

\* Variant of initializeOpenAI that does not look at isInitialized.
initializeOpenAI_Always(openaiNow, isInitializedNow, apiKey, ctorOk) ==
  IF apiKey \in {Undefined, ""}
  THEN [ok |-> FALSE, openai |-> openaiNow, isInitialized |-> isInitializedNow,
        constructed |-> FALSE]
  ELSE IF ctorOk
  THEN [ok |-> TRUE, openai |-> apiKey, isInitialized |-> TRUE, constructed |-> TRUE]
  ELSE [ok |-> FALSE, openai |-> openaiNow, isInitialized |-> isInitializedNow,
        constructed |-> FALSE]

\* Returns [ok, openai, isInitialized, constructed]: constructed tells
\* whether new OpenAI(...) ran and returned a client.
initializeOpenAI(openaiNow, isInitializedNow, apiKey, ctorOk) ==
  IF isInitializedNow
  THEN [ok |-> TRUE, openai |-> openaiNow, isInitialized |-> isInitializedNow,
        constructed |-> FALSE]
  ELSE IF apiKey \in {Undefined, ""}
  THEN [ok |-> FALSE, openai |-> openaiNow, isInitialized |-> isInitializedNow,
        constructed |-> FALSE]
  ELSE IF ctorOk
  THEN [ok |-> TRUE, openai |-> apiKey, isInitialized |-> TRUE, constructed |-> TRUE]
  ELSE [ok |-> FALSE, openai |-> openaiNow, isInitialized |-> isInitializedNow,
        constructed |-> FALSE]

NoResponse == [kind |-> "none"]

\* the failure envelope of parseSyllabusWithLLM without a rawResponse
FallbackResult(message) ==
  [success |-> FALSE, data |-> NoData, error |-> message, confidence |-> 0,
   method |-> "fallback", rawResponse |-> NoResponse]

\* in the fallback branch of preprocessText the text is normalised as in
\* cleanText and cut to 15000 characters
preprocessText(text) == cleanText(text)

\* Variant of the first part of parseSyllabusWithLLM that initialises the
\* client before it looks at the flag.
LLMStart_ClientFirst(e, openaiNow, isInitializedNow, ctorOk) ==
  LET init == initializeOpenAI(openaiNow, isInitializedNow, e.OPENAI_API_KEY, ctorOk)
  IN  IF ~init.ok
      THEN [returned |-> TRUE, value |-> FallbackResult("OpenAI client not available"),
            openai |-> init.openai, isInitialized |-> init.isInitialized,
            constructed |-> init.constructed]
      ELSE IF e.ENABLE_LLM_PARSING # "true"
      THEN [returned |-> TRUE, value |-> FallbackResult("LLM parsing is disabled"),
            openai |-> init.openai, isInitialized |-> init.isInitialized,
            constructed |-> init.constructed]
      ELSE [returned |-> FALSE, value |-> NoData,
            openai |-> init.openai, isInitialized |-> init.isInitialized,
            constructed |-> init.constructed]

\* parseSyllabusWithLLM up to the await of the model call: the two
\* short-circuits.  Returns [returned, value, openai, isInitialized,
\* constructed].
LLMStart(e, openaiNow, isInitializedNow, ctorOk) ==
  IF e.ENABLE_LLM_PARSING # "true"
  THEN [returned |-> TRUE, value |-> FallbackResult("LLM parsing is disabled"),
        openai |-> openaiNow, isInitialized |-> isInitializedNow, constructed |-> FALSE]
  ELSE LET init == initializeOpenAI(openaiNow, isInitializedNow, e.OPENAI_API_KEY, ctorOk)
       IN  IF ~init.ok
           THEN [returned |-> TRUE, value |-> FallbackResult("OpenAI client not available"),
                 openai |-> init.openai, isInitialized |-> init.isInitialized,
            constructed |-> init.constructed]
           ELSE [returned |-> FALSE, value |-> NoData,
                 openai |-> init.openai, isInitialized |-> init.isInitialized,
            constructed |-> init.constructed]

\* parseSyllabusWithLLM from the completion of the model call on.
LLMFinish(text, courseName, courseCode, semester, year, response) ==
  IF response.kind = "error"
  THEN [FallbackResult("model call failed") EXCEPT !.rawResponse = NoResponse]
  ELSE Bind(parseLLMResponse(response), LAMBDA parsedResponse :
           IF ~parsedResponse.success
           THEN [success |-> FALSE, data |-> NoData, error |-> parsedResponse.error,
                 confidence |-> 0, method |-> "fallback", rawResponse |-> response]
           ELSE Bind(convertToCalendarEvents(parsedResponse.data), LAMBDA calendarEvents :
                LET info == parsedResponse.data.course_info
                    score == parsedResponse.data.confidence_score
                IN  IF calendarEvents.threw THEN FallbackResult(calendarEvents.error)
                    ELSE [success |-> TRUE,
                          data |-> [courseName |->
                                      Or(info.course_name, Or(courseName, <<"Unknown", "Course">>)),
                                    courseCode |->
                                      Or(info.course_code, Or(courseCode, <<"UNKNOWN">>)),
                                    semester |->
                                      Or(info.semester, Or(semester, <<"Unknown">>)),
                                    year |-> IF info.year # 0 THEN info.year
                                             ELSE IF year # 0 THEN year ELSE NowYear,
                                    events |-> calendarEvents.value,
                                    rawText |-> text,
                                    parsedAt |-> Now],
                          error |-> Undefined,
                          confidence |-> IF score.present /\ score.value # 0
                                         THEN score.value ELSE 85,
                          method |-> "llm",
                          rawResponse |-> response]))


(***************************************************************************)
(* SyllabusParserService.parseSyllabus, from the completion of the awaited *)
(* parseSyllabusWithLLM on.  The promise of parseSyllabusWithRegex is      *)
(* returned, not awaited, so a rejection of it would leave the try block   *)
(* and reach the caller.  Returns [threw, value, regex, li]: the           *)
(* completion of parseSyllabus, the completion of the deterministic        *)
(* extractor when it ran, and the lastIndex of the static patterns.        *)
(***************************************************************************)
NoResult == [none |-> TRUE]

\* Variant of parseSyllabus that takes the deterministic path whatever the
\* model path returned.
parseSyllabus_AlwaysRegex(llmResult, text, courseName, courseCode, semester, year, li) ==
  Bind(parseSyllabusWithRegex(text, courseName, courseCode, semester, year, li), LAMBDA r :
    [threw |-> r.threw,
     value |-> IF r.threw THEN NoData ELSE r.value,
     regex |-> r,
     li |-> r.li])

parseSyllabus(llmResult, text, courseName, courseCode, semester, year, li) ==
  IF llmResult.success /\ llmResult.data # NoData
  THEN [threw |-> FALSE,
        value |-> [success |-> TRUE,
                   data |-> llmResult.data,
                   error |-> Undefined,
                   confidence |-> llmResult.confidence,
                   method |-> "llm"],
        regex |-> NoResult,
        li |-> li]
  ELSE Bind(parseSyllabusWithRegex(text, courseName, courseCode, semester, year, li),
            LAMBDA r :
              [threw |-> r.threw,
               value |-> IF r.threw THEN NoData ELSE r.value,
               regex |-> r,
               li |-> r.li])

(***************************************************************************)
(* The model responses.                                                    *)
(***************************************************************************)
NoCourseInfo == [course_name |-> NULL, course_code |-> NULL, semester |-> NULL, year |-> 0]

Missing == [present |-> FALSE, items |-> <<>>]
List(items) == [present |-> TRUE, items |-> items]

AssignmentEntries ==
  [title : {<<"Essay 1">>},
   due_date : {<<"2024-03-10">>, <<"2024-02-30">>, <<"2024-13-01">>, <<"TBD">>, NULL},
   details : {NULL},
   priority : {NULL}]
  \cup
  [title : {<<"Email draft">>},
   due_date : {<<"2024-03-10">>, <<"TBD">>},
   details : {NULL},
   priority : {NULL}]

ExamEntries ==
  [title : {<<"Midterm">>},
   date : {<<"2100-01-01">>, <<"TBA">>},
   time : {NULL},
   details : {NULL},
   priority : {NULL}]

ActivityEntries ==
  {[title |-> <<"Read ch 1">>, details |-> NULL, type |-> <<"reading">>, priority |-> NULL],
   [title |-> <<"Office hours">>, details |-> NULL, type |-> NULL, priority |-> NULL]}

ListsOf(entries, n) == {Missing} \cup {List(items) : items \in SeqsUpTo(entries, n)}

\* the JSON objects with at most MaxEntries entries in their lists
JsonBodies ==
  UNION {UNION {{[assignments |-> a, exams |-> e, activities |-> c,
                  course_info |-> NoCourseInfo, confidence_score |-> None] :
                   c \in ListsOf(ActivityEntries, MaxEntries - Len(a.items) - Len(e.items))} :
                e \in ListsOf(ExamEntries, MaxEntries - Len(a.items))} :
         a \in ListsOf(AssignmentEntries, MaxEntries)}

EmptyBody ==
  [assignments |-> Missing, exams |-> Missing, activities |-> Missing,
   course_info |-> NoCourseInfo, confidence_score |-> None]

\* a rejected call, an empty content, a text that is no JSON though it
\* ends with "}", the text of an object cut off before its closing "}", the
\* JSON null, the JSON []
FailedResponses ==
  {[kind |-> k, body |-> EmptyBody] :
     k \in {"error", "empty", "malformed", "truncated", "jsonNull", "jsonArray"}}

\* response.trim().endsWith('}')
EndsWithBrace(response) == response.kind \in {"json", "malformed"}

\* a few responses with course_info, a confidence_score, details, a
\* priority, and an activity without a title
SampleBodies ==
  {[assignments |-> a, exams |-> List(<<>>), activities |-> c,
    course_info |-> info, confidence_score |-> score] :
     a \in {Missing,
            List(<<[title |-> <<"Essay 1">>, due_date |-> <<"2024-03-10">>,
                    details |-> <<"see email">>, priority |-> <<"High">>]>>)},
     c \in {List(<<>>),
            List(<<[title |-> NULL, details |-> NULL, type |-> NULL, priority |-> NULL]>>)},
     info \in {NoCourseInfo,
               [course_name |-> <<"Contracts">>, course_code |-> NULL,
                semester |-> NULL, year |-> 0]},
     score \in {Some(0), Some(90), Some(150)}}

Responses ==
  FailedResponses \cup {[kind |-> "json", body |-> b] : b \in JsonBodies \cup SampleBodies}

(***************************************************************************)
(* GoogleCalendarService.                                                  *)
(***************************************************************************)
\* the events a client may send to be synced; the third carries a date
\* that is no date
SyncEvents ==
  {[title |-> <<"Essay 1">>, description |-> NULL, type |-> "assignment",
    priority |-> "high", date |-> DateAt(DayNumber(2024, 3, 10))],
   [title |-> <<"Read ch 1">>, description |-> <<"pages 1-20">>, type |-> "reading",
    priority |-> "medium", date |-> DateAt(DayNumber(2024, 3, 10))],
   [title |-> <<"Midterm">>, description |-> NULL, type |-> "exam",
    priority |-> "urgent", date |-> InvalidDate]}

EventLists == SeqsUpTo(SyncEvents, MaxEvents)

colorIdOf(type) ==
  CASE type = "assignment" -> "5"
    [] type = "exam" -> "11"
    [] type = "reading" -> "10"
    [] type = "class" -> "6"
    [] type = "deadline" -> "11"
    [] OTHER -> "1"

\* Date.prototype.setHours(hours) takes the integer part of hours
Trunc(halfHours) == halfHours \div 2

\* Returns the completion [threw, value | error]: toISOString() throws on
\* an Invalid Date.  The end is set by setHours(getHours() + 1), or by
\* setHours(getHours() + 0.5) for the types other than assignment and exam.
mapToGoogleCalendarEvent(event) ==
  IF ~event.date.valid THEN Thrown("RangeError: Invalid time value")
  ELSE LET startDate == event.date
           startHour == (startDate.t % 1440) \div 60
           endHour == IF event.type \in {"assignment", "exam"}
                      THEN Trunc(2 * (startHour + 1))
                      ELSE Trunc(2 * startHour + 1)
           endDate == [valid |-> TRUE, t |-> startDate.t + 60 * (endHour - startHour)]
       IN  Returned([summary |-> event.title,
                     description |->
                       IF event.description # NULL /\ event.description # <<>>
                       THEN event.description
                       ELSE <<"Course: N/A", "Type:", event.type, "Priority:", event.priority>>,
                     start |-> startDate,
                     end |-> endDate,
                     colorId |-> colorIdOf(event.type),
                     reminders |-> [useDefault |-> TRUE]])

FailedToSync(event, error) == [title |-> event.title, error |-> error]

\* Variant of the loop that stops at the first event whose mapping fails.
SyncLoop_Abort(events, i, res, tried) ==
  IF i > Len(events)
  THEN [state |-> "done", i |-> i,
        result |-> [res EXCEPT !.success = (res.failedEvents = 0)],
        tried |-> tried]
  ELSE LET googleEvent == mapToGoogleCalendarEvent(events[i])
       IN  IF googleEvent.threw
           THEN [state |-> "done", i |-> i,
                 result |-> [res EXCEPT !.success = FALSE,
                                        !.failedEvents = @ + 1,
                                        !.errors = Append(@, FailedToSync(events[i], googleEvent.error))],
                 tried |-> Append(tried, [event |-> i, outcome |-> "mapping failed"])]
           ELSE [state |-> "awaitInsert", i |-> i, result |-> res, tried |-> tried]

\* The loop of syncEvents from event i on, up to its next await or its
\* end.  Returns [state, i, result, tried]: "awaitInsert" with the index
\* of the event whose insert is awaited, or "done"; the result record; the
\* events whose mapping failed on the way.
RECURSIVE SyncLoop(_, _, _, _)
SyncLoop(events, i, res, tried) ==
  IF i > Len(events)
  THEN [state |-> "done", i |-> i,
        result |-> [res EXCEPT !.success = (res.failedEvents = 0)],
        tried |-> tried]
  ELSE LET googleEvent == mapToGoogleCalendarEvent(events[i])
       IN  IF googleEvent.threw
           THEN SyncLoop(events, i + 1,
                         [res EXCEPT !.failedEvents = @ + 1,
                                     !.errors = Append(@, FailedToSync(events[i], googleEvent.error))],
                         Append(tried, [event |-> i, outcome |-> "mapping failed"]))
           ELSE [state |-> "awaitInsert", i |-> i, result |-> res, tried |-> tried]

(***************************************************************************)
(* State.                                                                  *)
(***************************************************************************)
VARIABLES
  env,            \* process.env: ENABLE_LLM_PARSING, OPENAI_API_KEY
  lastIndex,      \* lastIndex of each static pattern of SyllabusParserService
  openai,         \* LLMParserService.openai
  isInitialized,  \* LLMParserService.isInitialized
  pc,             \* "idle", or "awaitModel" while parseSyllabus awaits the model
  call,           \* the arguments of the current or last parseSyllabus call
  invoked,        \* whether that call sent a request to the model
  llmResult,      \* what parseSyllabusWithLLM returned to it
  regexResult,    \* the completion of parseSyllabusWithRegex, if it ran
  result,         \* the completion of parseSyllabus
  modelHung,      \* the awaited model call is one that never settles
  openaiBuilt,    \* how many times new OpenAI(...) has returned a client
  credentials,    \* GoogleCalendarService.oauth2Client.credentials
  calendar,       \* GoogleCalendarService.calendar: whether the handle is set
  syncPc,         \* "idle", "awaitInsert" or "done": the syncEvents call
  syncCall,       \* its arguments
  syncIdx,        \* the index of the event whose insert it awaits
  syncResult,     \* its result record
  syncReturn,     \* its completion
  attempts,       \* the events it has tried, in order, with the outcome
  inserts,        \* the insert requests the provider has received from it
  insertHung,     \* the awaited insert is one that never settles
  googleCalendarService, \* api/index.ts: whether the module-level handle is set
  serviceBuilt,   \* how many times new GoogleCalendarService() has run
  installed,      \* the client whose request last installed credentials, and them
  reply,          \* the last response a calendar route sent
  methodCall      \* the last getCalendars / createCalendar call and its outcome

parseVars ==
  <<env, lastIndex, openai, isInitialized, pc, call, invoked, llmResult,
    regexResult, result, modelHung, openaiBuilt>>

syncVars ==
  <<credentials, calendar, syncPc, syncCall, syncIdx, syncResult, syncReturn,
    attempts, inserts, insertHung>>

serverVars ==
  <<googleCalendarService, serviceBuilt, installed, reply, methodCall>>

vars == <<parseVars, syncVars, serverVars>>

NoTokens == [access_token |-> Undefined]

\* the count of constructions after one more constructor call; the count
\* stops at MaxBuilt
MaxBuilt == 2

Counted(n, constructed) ==
  IF constructed /\ n < MaxBuilt THEN n + 1 ELSE n

TokenSets == {[access_token |-> "token-a"], NoTokens}

\* the clients of the server, and the token objects each can present: one
\* with its own access token, one without any
Clients == {"alice", "bob"}

TokensOf(client) ==
  {[access_token |-> IF client = "alice" THEN "token-a" ELSE "token-b"], NoTokens}

NoInstall == [client |-> "nobody", tokens |-> NoTokens]

CalendarIds == {"primary"}

Envs ==
  [ENABLE_LLM_PARSING : {Undefined, "true", "false"},
   OPENAI_API_KEY : {Undefined, "sk-key"}]

Init ==
  /\ env \in Envs
  /\ lastIndex = [p \in Patterns |-> 0]
  /\ openai = Undefined
  /\ isInitialized = FALSE
  /\ pc = "idle"
  /\ call = NoResult
  /\ invoked = FALSE
  /\ llmResult = NoResult
  /\ regexResult = NoResult
  /\ result = NoResult
  /\ modelHung = FALSE
  /\ openaiBuilt = 0
  /\ credentials = NoTokens
  /\ calendar = FALSE
  /\ syncPc = "idle"
  /\ syncCall = NoResult
  /\ syncIdx = 0
  /\ syncResult = NoResult
  /\ syncReturn = NoResult
  /\ attempts = <<>>
  /\ inserts = <<>>
  /\ insertHung = FALSE
  /\ googleCalendarService = FALSE
  /\ serviceBuilt = 0
  /\ installed = NoInstall
  /\ reply = NoResult
  /\ methodCall = NoResult

\* the rest of parseSyllabus once parseSyllabusWithLLM has returned llm
Complete(llm, text, meta) ==
  \E done \in {parseSyllabus(llm, text, meta.courseName, meta.courseCode,
                              meta.semester, meta.year, lastIndex)} :
    /\ llmResult' = llm
    /\ regexResult' = done.regex
    /\ result' = [threw |-> done.threw, value |-> done.value]
    /\ lastIndex' = done.li
    /\ pc' = "idle"

\* whether new OpenAI(...) succeeds is open only when it would run
CtorOutcomes ==
  IF isInitialized \/ env.OPENAI_API_KEY \in {Undefined, ""} THEN {TRUE} ELSE BOOLEAN

\* a request calls parseSyllabus(text, ...): it runs up to the await of the
\* model call, or to its end when the model path returns at once
ParseSyllabus(text, meta, ctorOk) ==
  /\ pc = "idle"
  /\ LET start == LLMStart(env, openai, isInitialized, ctorOk)
     IN  /\ openai' = start.openai
         /\ isInitialized' = start.isInitialized
         /\ openaiBuilt' = Counted(openaiBuilt, start.constructed)
         /\ call' = [text |-> text, meta |-> meta, prompt |-> preprocessText(text)]
         /\ invoked' = ~start.returned
         /\ IF start.returned
            THEN Complete(start.value, text, meta)
            ELSE /\ pc' = "awaitModel"
                 /\ llmResult' = NoResult
                 /\ regexResult' = NoResult
                 /\ result' = NoResult
                 /\ UNCHANGED lastIndex
  /\ UNCHANGED <<env, modelHung, syncVars, serverVars>>

\* the model call completes and parseSyllabus runs to its end
ModelResponse(response) ==
  /\ pc = "awaitModel"
  /\ ~modelHung
  /\ Complete(LLMFinish(call.text, call.meta.courseName, call.meta.courseCode,
                        call.meta.semester, call.meta.year, response),
              call.text, call.meta)
  /\ UNCHANGED <<env, openai, isInitialized, call, invoked, modelHung, openaiBuilt,
                 syncVars, serverVars>>

\* the promise of chat.completions.create is one that never settles:
\* callOpenAI awaits it without a timer, so no step of the call follows
ModelHangs ==
  /\ pc = "awaitModel"
  /\ ~modelHung
  /\ modelHung' = TRUE
  /\ UNCHANGED <<env, lastIndex, openai, isInitialized, pc, call, invoked, llmResult,
                 regexResult, result, openaiBuilt, syncVars, serverVars>>

\* the status endpoint: LLMParserService.getStatus()
GetStatus(ctorOk) ==
  LET init == initializeOpenAI(openai, isInitialized, env.OPENAI_API_KEY, ctorOk)
  IN  /\ openai' = init.openai
      /\ isInitialized' = init.isInitialized
      /\ openaiBuilt' = Counted(openaiBuilt, init.constructed)
      /\ UNCHANGED <<env, lastIndex, pc, call, invoked, llmResult, regexResult, result,
                      modelHung, syncVars, serverVars>>

\* Variant of setCredentials that installs the tokens and leaves the
\* calendar handle as it was.
setCredentials_NoHandle(tokens, calendarNow) ==
  [credentials |-> tokens, calendar |-> calendarNow]

\* setCredentials(tokens): the fields of the service after it
setCredentials(tokens, calendarNow) ==
  [credentials |-> tokens, calendar |-> TRUE]

\* isAuthenticated()
isAuthenticated(creds) == creds.access_token # Undefined

\* a call of setCredentials(tokens) on the service
SetCredentials(tokens) ==
  /\ credentials' = setCredentials(tokens, calendar).credentials
  /\ calendar' = setCredentials(tokens, calendar).calendar
  /\ UNCHANGED <<parseVars, serverVars, syncPc, syncCall, syncIdx, syncResult, syncReturn,
                 attempts, inserts, insertHung>>

\* getTokens(code): the provider exchanges the code for tokens, or rejects it
GetTokens(tokens, accepted) ==
  /\ credentials' = IF accepted THEN setCredentials(tokens, calendar).credentials
                               ELSE credentials
  /\ calendar' = IF accepted THEN setCredentials(tokens, calendar).calendar ELSE calendar
  /\ UNCHANGED <<parseVars, serverVars, syncPc, syncCall, syncIdx, syncResult, syncReturn,
                 attempts, inserts, insertHung>>

\* the state of the call after SyncLoop ran from event i on
Advance(events, calendarId, i, res, tried, sent) ==
  LET loop == SyncLoop(events, i, res, tried)
  IN  /\ syncPc' = loop.state
      /\ syncIdx' = loop.i
      /\ syncResult' = loop.result
      /\ attempts' = loop.tried
      /\ syncReturn' = IF loop.state = "done" THEN Returned(loop.result) ELSE NoResult
      /\ inserts' = IF loop.state = "awaitInsert"
                    THEN Append(sent, [event |-> loop.i,
                                       calendarId |-> calendarId,
                                       requestBody |-> mapToGoogleCalendarEvent(events[loop.i]).value,
                                       account |-> credentials.access_token])
                    ELSE sent

\* the body of syncEvents(events, calendarId), up to its first await or
\* its end
SyncEventsBody(events, calendarId) ==
  /\ syncCall' = [events |-> events, calendarId |-> calendarId]
  /\ IF ~calendar
     THEN /\ syncReturn' = Thrown("Not authenticated")
          /\ syncPc' = "done"
          /\ syncIdx' = 0
          /\ syncResult' = NoResult
          /\ attempts' = <<>>
          /\ inserts' = <<>>
     ELSE Advance(events, calendarId, 1,
                  [success |-> TRUE, syncedEvents |-> 0, failedEvents |-> 0,
                   errors |-> <<>>, calendarId |-> calendarId],
                  <<>>, <<>>)

\* a call of syncEvents(events, calendarId) on the service; one call runs
\* at a time
SyncEventsCall(events, calendarId) ==
  /\ syncPc # "awaitInsert"
  /\ SyncEventsBody(events, calendarId)
  /\ UNCHANGED <<parseVars, serverVars, credentials, calendar, insertHung>>

\* the awaited insert resolves
InsertResolves ==
  /\ syncPc = "awaitInsert"
  /\ ~insertHung
  /\ Advance(syncCall.events, syncCall.calendarId, syncIdx + 1,
             [syncResult EXCEPT !.syncedEvents = @ + 1],
             Append(attempts, [event |-> syncIdx, outcome |-> "inserted"]),
             inserts)
  /\ UNCHANGED <<parseVars, serverVars, credentials, calendar, syncCall, insertHung>>

\* Variant of the rejection that records the error without counting it.
InsertRejects_Uncounted ==
  /\ syncPc = "awaitInsert"
  /\ ~insertHung
  /\ Advance(syncCall.events, syncCall.calendarId, syncIdx + 1,
             [syncResult EXCEPT !.errors = Append(@, FailedToSync(syncCall.events[syncIdx],
                                                                  "insert failed"))],
             Append(attempts, [event |-> syncIdx, outcome |-> "insert failed"]),
             inserts)
  /\ UNCHANGED <<parseVars, serverVars, credentials, calendar, syncCall, insertHung>>

\* the awaited insert rejects
InsertRejects ==
  /\ syncPc = "awaitInsert"
  /\ ~insertHung
  /\ Advance(syncCall.events, syncCall.calendarId, syncIdx + 1,
             [syncResult EXCEPT !.failedEvents = @ + 1,
                                !.errors = Append(@, FailedToSync(syncCall.events[syncIdx],
                                                                  "insert failed"))],
             Append(attempts, [event |-> syncIdx, outcome |-> "insert failed"]),
             inserts)
  /\ UNCHANGED <<parseVars, serverVars, credentials, calendar, syncCall, insertHung>>

\* the promise of calendar.events.insert is one that never settles: the
\* loop awaits it without a timer, so no step of the call follows
InsertHangs ==
  /\ syncPc = "awaitInsert"
  /\ ~insertHung
  /\ insertHung' = TRUE
  /\ UNCHANGED <<parseVars, serverVars, credentials, calendar, syncPc, syncCall, syncIdx, syncResult,
                 syncReturn, attempts, inserts>>

(***************************************************************************)
(* api/index.ts: the calendar routes of the long-lived server.  Every      *)
(* route reaches the service through getGoogleCalendarService().           *)
(***************************************************************************)
\* the event lists a sync-events request may carry: none, or one event
ServerEventLists ==
  {<<>>,
   <<[title |-> <<"Essay 1">>, description |-> NULL, type |-> "assignment",
      priority |-> "high", date |-> DateAt(DayNumber(2024, 3, 10))]>>}

GatedRoutes == {"sync-events", "calendars", "create-calendar"}

\* Variant of getGoogleCalendarService that builds a service on every call.
getGoogleCalendarService_Fresh(service, creds, cal) ==
  [constructed |-> TRUE, credentials |-> NoTokens, calendar |-> FALSE]

\* getGoogleCalendarService(): the fields of the service it returns, and
\* whether it ran the constructor; the constructor builds the OAuth2 client
\* only, with no credentials and no calendar handle
getGoogleCalendarService(service, creds, cal) ==
  IF ~service
  THEN [constructed |-> TRUE, credentials |-> NoTokens, calendar |-> FALSE]
  ELSE [constructed |-> FALSE, credentials |-> creds, calendar |-> cal]

\* getCalendars() and createCalendar(name, description): both throw before
\* any request when the handle is unset, and await one provider call
\* otherwise, which resolves (ok) or rejects
GuardedCall(op, cal, creds, ok) ==
  IF ~cal
  THEN [op |-> op, threw |-> TRUE, error |-> "Not authenticated",
        contacted |-> FALSE, account |-> Undefined]
  ELSE [op |-> op, threw |-> ~ok, error |-> IF ok THEN "" ELSE "provider error",
        contacted |-> TRUE, account |-> creds.access_token]

getCalendars(cal, creds, ok) == GuardedCall("getCalendars", cal, creds, ok)

createCalendar(cal, creds, ok) == GuardedCall("createCalendar", cal, creds, ok)

Reply(client, route, status, account) ==
  [client |-> client, route |-> route, status |-> status, account |-> account]

\* what every route does first: the call of getGoogleCalendarService()
UseService(got) ==
  /\ googleCalendarService' = TRUE
  /\ serviceBuilt' = Counted(serviceBuilt, got.constructed)

\* the frame of a route that starts no syncEvents call
NoSyncCall ==
  UNCHANGED <<parseVars, syncPc, syncCall, syncIdx, syncResult, syncReturn, attempts,
              inserts, insertHung>>

\* GET /api/google-calendar/auth-url
AuthUrlRequest(client, ok) ==
  \E got \in {getGoogleCalendarService(googleCalendarService, credentials, calendar)} :
    /\ UseService(got)
    /\ credentials' = got.credentials
    /\ calendar' = got.calendar
    /\ reply' = Reply(client, "auth-url", IF ok THEN 200 ELSE 500, Undefined)
    /\ NoSyncCall
    /\ UNCHANGED <<installed, methodCall>>

\* POST /api/google-calendar/auth-callback: the provider exchanges the code
\* for tokens (accepted) or rejects it
AuthCallbackRequest(client, hasCode, tokens, accepted) ==
  IF ~hasCode
  THEN /\ reply' = Reply(client, "auth-callback", 400, Undefined)
       /\ NoSyncCall
       /\ UNCHANGED <<credentials, calendar, googleCalendarService, serviceBuilt,
                      installed, methodCall>>
  ELSE \E got \in {getGoogleCalendarService(googleCalendarService, credentials, calendar)} :
         /\ UseService(got)
         /\ IF accepted
            THEN /\ credentials' = setCredentials(tokens, got.calendar).credentials
                 /\ calendar' = setCredentials(tokens, got.calendar).calendar
                 /\ installed' = [client |-> client, tokens |-> tokens]
                 /\ reply' = Reply(client, "auth-callback", 200, tokens.access_token)
            ELSE /\ credentials' = got.credentials
                 /\ calendar' = got.calendar
                 /\ installed' = installed
                 /\ reply' = Reply(client, "auth-callback", 500, Undefined)
         /\ NoSyncCall
         /\ UNCHANGED methodCall

\* POST /api/google-calendar/set-credentials
SetCredentialsRequest(client, hasTokens, tokens) ==
  IF ~hasTokens
  THEN /\ reply' = Reply(client, "set-credentials", 400, Undefined)
       /\ NoSyncCall
       /\ UNCHANGED <<credentials, calendar, googleCalendarService, serviceBuilt,
                      installed, methodCall>>
  ELSE \E got \in {getGoogleCalendarService(googleCalendarService, credentials, calendar)} :
         /\ UseService(got)
         /\ credentials' = setCredentials(tokens, got.calendar).credentials
         /\ calendar' = setCredentials(tokens, got.calendar).calendar
         /\ installed' = [client |-> client, tokens |-> tokens]
         /\ reply' = Reply(client, "set-credentials", 200, tokens.access_token)
         /\ NoSyncCall
         /\ UNCHANGED methodCall

\* POST /api/google-calendar/sync-events, up to the first await of
\* syncEvents or its end; status 0 is a response not sent yet
SyncEventsRequest(client, hasEvents, events, calendarId) ==
  /\ syncPc # "awaitInsert"
  /\ IF ~hasEvents
     THEN /\ reply' = Reply(client, "sync-events", 400, Undefined)
          /\ NoSyncCall
          /\ UNCHANGED <<credentials, calendar, googleCalendarService, serviceBuilt,
                         installed, methodCall>>
     ELSE \E got \in {getGoogleCalendarService(googleCalendarService, credentials, calendar)} :
            /\ UseService(got)
            /\ credentials' = got.credentials
            /\ calendar' = got.calendar
            /\ IF ~isAuthenticated(got.credentials)
               THEN /\ reply' = Reply(client, "sync-events", 401, Undefined)
                    /\ NoSyncCall
               ELSE /\ SyncEventsBody(events, calendarId)
                    /\ reply' = Reply(client, "sync-events",
                                      IF syncReturn' = Thrown("Not authenticated") THEN 500
                                      ELSE IF syncPc' = "done" THEN 200 ELSE 0,
                                      got.credentials.access_token)
                    /\ UNCHANGED <<parseVars, insertHung>>
            /\ UNCHANGED <<installed, methodCall>>

\* GET /api/google-calendar/calendars
CalendarsRequest(client, ok) ==
  \E got \in {getGoogleCalendarService(googleCalendarService, credentials, calendar)} :
    /\ UseService(got)
    /\ credentials' = got.credentials
    /\ calendar' = got.calendar
    /\ IF ~isAuthenticated(got.credentials)
       THEN /\ reply' = Reply(client, "calendars", 401, Undefined)
            /\ methodCall' = methodCall
       ELSE /\ methodCall' = getCalendars(got.calendar, got.credentials, ok)
            /\ reply' = Reply(client, "calendars", IF methodCall'.threw THEN 500 ELSE 200,
                              methodCall'.account)
    /\ NoSyncCall
    /\ UNCHANGED installed

\* POST /api/google-calendar/create-calendar
CreateCalendarRequest(client, hasName, ok) ==
  IF ~hasName
  THEN /\ reply' = Reply(client, "create-calendar", 400, Undefined)
       /\ NoSyncCall
       /\ UNCHANGED <<credentials, calendar, googleCalendarService, serviceBuilt,
                      installed, methodCall>>
  ELSE \E got \in {getGoogleCalendarService(googleCalendarService, credentials, calendar)} :
         /\ UseService(got)
         /\ credentials' = got.credentials
         /\ calendar' = got.calendar
         /\ IF ~isAuthenticated(got.credentials)
            THEN /\ reply' = Reply(client, "create-calendar", 401, Undefined)
                 /\ methodCall' = methodCall
            ELSE /\ methodCall' = createCalendar(got.calendar, got.credentials, ok)
                 /\ reply' = Reply(client, "create-calendar",
                                   IF methodCall'.threw THEN 500 ELSE 200,
                                   methodCall'.account)
         /\ NoSyncCall
         /\ UNCHANGED installed

\* GET /api/google-calendar/status
StatusRequest(client) ==
  \E got \in {getGoogleCalendarService(googleCalendarService, credentials, calendar)} :
    /\ UseService(got)
    /\ credentials' = got.credentials
    /\ calendar' = got.calendar
    /\ reply' = Reply(client, "status", 200, Undefined)
    /\ NoSyncCall
    /\ UNCHANGED <<installed, methodCall>>

\* a call of getCalendars() on the service the server holds
GetCalendarsCall(ok) ==
  /\ googleCalendarService
  /\ methodCall' = getCalendars(calendar, credentials, ok)
  /\ NoSyncCall
  /\ UNCHANGED <<credentials, calendar, googleCalendarService, serviceBuilt, installed,
                 reply>>

\* a call of createCalendar(name, description) on that service
CreateCalendarCall(ok) ==
  /\ googleCalendarService
  /\ methodCall' = createCalendar(calendar, credentials, ok)
  /\ NoSyncCall
  /\ UNCHANGED <<credentials, calendar, googleCalendarService, serviceBuilt, installed,
                 reply>>

\* a call of syncEvents(events, calendarId) on that service
ServiceSyncEvents(events, calendarId) ==
  /\ googleCalendarService
  /\ SyncEventsCall(events, calendarId)

Next ==
  \/ \E text \in SampleTexts, meta \in Metas, ctorOk \in CtorOutcomes :
       ParseSyllabus(text, meta, ctorOk)
  \/ \E response \in Responses : ModelResponse(response)
  \/ ModelHangs
  \/ \E ctorOk \in CtorOutcomes : GetStatus(ctorOk)

Spec == Init /\ [][Next]_vars

\* The deterministic path alone: model-assisted parsing is switched off
\* and the texts are all the texts of at most MaxWords words.
RegexInit == Init /\ env.ENABLE_LLM_PARSING # "true" /\ env.OPENAI_API_KEY = Undefined

RegexNext ==
  \E text \in Texts, meta \in Metas, ctorOk \in CtorOutcomes : ParseSyllabus(text, meta, ctorOk)

RegexSpec == RegexInit /\ [][RegexNext]_vars

\* The calendar service alone.
SyncNext ==
  \/ \E tokens \in TokenSets : SetCredentials(tokens)
  \/ \E tokens \in TokenSets, accepted \in BOOLEAN : GetTokens(tokens, accepted)
  \/ \E events \in EventLists, calendarId \in CalendarIds : SyncEventsCall(events, calendarId)
  \/ InsertResolves
  \/ InsertRejects
  \/ InsertHangs

SyncInit == Init /\ env.ENABLE_LLM_PARSING = Undefined /\ env.OPENAI_API_KEY = Undefined

SyncSpec == SyncInit /\ [][SyncNext]_vars

\* The server: the calendar routes, the calls they make on the service,
\* and the status route of the parser, which builds the model client.
ServerNext ==
  \/ \E client \in Clients, ok \in BOOLEAN : AuthUrlRequest(client, ok)
  \/ \E client \in Clients, hasCode \in BOOLEAN, accepted \in BOOLEAN :
       \E tokens \in TokensOf(client) : AuthCallbackRequest(client, hasCode, tokens, accepted)
  \/ \E client \in Clients, hasTokens \in BOOLEAN :
       \E tokens \in TokensOf(client) : SetCredentialsRequest(client, hasTokens, tokens)
  \/ \E client \in Clients, hasEvents \in BOOLEAN, events \in ServerEventLists,
        calendarId \in CalendarIds :
       SyncEventsRequest(client, hasEvents, events, calendarId)
  \/ \E client \in Clients, ok \in BOOLEAN : CalendarsRequest(client, ok)
  \/ \E client \in Clients, hasName \in BOOLEAN, ok \in BOOLEAN :
       CreateCalendarRequest(client, hasName, ok)
  \/ \E client \in Clients : StatusRequest(client)
  \/ \E ok \in BOOLEAN : GetCalendarsCall(ok)
  \/ \E ok \in BOOLEAN : CreateCalendarCall(ok)
  \/ \E events \in ServerEventLists, calendarId \in CalendarIds :
       ServiceSyncEvents(events, calendarId)
  \/ InsertResolves
  \/ InsertRejects
  \/ \E ctorOk \in CtorOutcomes : GetStatus(ctorOk)

ServerInit == Init /\ env.ENABLE_LLM_PARSING = Undefined

ServerSpec == ServerInit /\ [][ServerNext]_vars


(***************************************************************************)
(* Properties.                                                             *)
(***************************************************************************)
ModelPathSucceeded ==
  llmResult # NoResult /\ llmResult.success /\ llmResult.data # NoData

ModelPathFailed ==
  llmResult # NoResult /\ ~(llmResult.success /\ llmResult.data # NoData)

\* C1: whenever parseSyllabusWithLLM returned success with data,
\* parseSyllabus returns success, method "llm", that data and that
\* confidence, and the deterministic extractor has not run.
C1_ModelSuccessReturnedVerbatim ==
  ModelPathSucceeded =>
    /\ result = [threw |-> FALSE,
                 value |-> [success |-> TRUE,
                            data |-> llmResult.data,
                            error |-> Undefined,
                            confidence |-> llmResult.confidence,
                            method |-> "llm"]]
    /\ regexResult = NoResult

C1_Witness ==
  /\ ModelPathSucceeded
  /\ result # NoResult
  /\ result.value.method = "llm"
  /\ Len(result.value.data.events) = 2

\* C2: whenever parseSyllabusWithLLM did not succeed, parseSyllabus returns
\* the result of parseSyllabusWithRegex for the same arguments and the
\* returned method is "regex".
C2_FailedModelPathGivesRegexResult ==
  ModelPathFailed =>
    /\ regexResult # NoResult
    /\ ~result.threw
    /\ result.value = regexResult.value
    /\ result.value.method = "regex"

\* C3: parseSyllabus never throws; what it returns carries a success flag, a
\* numeric confidence and a method; an envelope that reports a caught error,
\* from parseSyllabus or from parseSyllabusWithLLM, has success false,
\* method "fallback" and confidence 0.
C3_AlwaysAnEnvelope ==
  /\ result # NoResult =>
       /\ ~result.threw
       /\ result.value.success \in BOOLEAN
       /\ result.value.confidence \in Int
       /\ result.value.method \in {"llm", "regex", "fallback"}
       /\ result.value.error # Undefined =>
            /\ ~result.value.success
            /\ result.value.method = "fallback"
            /\ result.value.confidence = 0
  /\ llmResult # NoResult =>
       (llmResult.error # Undefined =>
          /\ ~llmResult.success
          /\ llmResult.method = "fallback"
          /\ llmResult.confidence = 0)

C3_Witness ==
  /\ result # NoResult
  /\ ~result.threw
  /\ result.value.error = "RangeError: Invalid time value"
  /\ llmResult.error = "Invalid JSON response from LLM"

EventKey(ev) == [id |-> ev.id, title |-> ev.title, date |-> ev.date, type |-> ev.type]

EventKeys(events) == {EventKey(events[i]) : i \in 1..Len(events)}

\* C4: a parse of the text and metadata of the parse before it, both
\* successful with the model path disabled, returns the same set of events
\* compared on id, title, date and type.
C4_RepeatedParseSameEvents ==
  [][(/\ call # NoResult
      /\ call' = call
      /\ result # NoResult
      /\ result' # NoResult
      /\ result.value.success
      /\ result'.value.success)
     => EventKeys(result'.value.data.events) = EventKeys(result.value.data.events)]_vars

SyncReturned == syncPc = "done" /\ syncReturn # NoResult /\ ~syncReturn.threw

FailedAttempts == SelectSeq(attempts, LAMBDA a : a.outcome # "inserted")

\* C5: a syncEvents call that returns reports syncedEvents + failedEvents =
\* the number of events, one errors entry per failed event carrying that
\* event's title, in order, and success exactly when failedEvents = 0.
C5_SyncCounts ==
  SyncReturned =>
    LET r == syncReturn.value
        events == syncCall.events
    IN  /\ r.syncedEvents + r.failedEvents = Len(events)
        /\ Len(r.errors) = r.failedEvents
        /\ Len(FailedAttempts) = r.failedEvents
        /\ \A k \in 1..Len(r.errors) :
             r.errors[k].title = events[FailedAttempts[k].event].title
        /\ r.success <=> (r.failedEvents = 0)

C5_Witness ==
  /\ SyncReturned
  /\ Len(syncCall.events) = 3
  /\ syncReturn.value.syncedEvents = 2
  /\ syncReturn.value.failedEvents = 1
  /\ attempts[2].outcome = "insert failed"
  /\ ~syncReturn.value.success

\* the insert requests the provider received for event k
RequestsFor(k) == SelectSeq(inserts, LAMBDA req : req.event = k)

\* C6: in every state of a syncEvents call the events tried so far are
\* events 1, 2, ... in that order, each once; the provider has received at
\* most one insert request per event, in input order, exactly one for each
\* tried event whose mapping succeeded; a returned call has tried every
\* event, whatever failed before it, and counts every inserted event.
C6_OneAttemptEachInOrder ==
  (syncCall # NoResult /\ (syncReturn = NoResult \/ ~syncReturn.threw)) =>
    LET events == syncCall.events
    IN  /\ \A k \in 1..Len(attempts) : attempts[k].event = k
        /\ \A k \in 1..Len(inserts) : \A j \in 1..(k - 1) :
             inserts[j].event < inserts[k].event
        /\ \A k \in 1..Len(attempts) :
             /\ Len(RequestsFor(k)) = (IF attempts[k].outcome = "mapping failed" THEN 0 ELSE 1)
             /\ attempts[k].outcome = "mapping failed"
                  <=> mapToGoogleCalendarEvent(events[k]).threw
        /\ SyncReturned =>
             /\ Len(attempts) = Len(events)
             /\ syncReturn.value.syncedEvents =
                  Len(SelectSeq(attempts, LAMBDA a : a.outcome = "inserted"))

C6_Witness ==
  /\ SyncReturned
  /\ Len(attempts) = 3
  /\ attempts[1].outcome = "insert failed"
  /\ attempts[2].outcome = "mapping failed"
  /\ attempts[3].outcome = "inserted"

\* the text is a date of the shape YYYY-MM-DD that exists in the calendar
IsRealCalendarDate(str) ==
  /\ str # NULL
  /\ Len(str) = 1
  /\ ~HasPlaceholder(str)
  /\ IsoFields(str[1]).shape
  /\ IsoFields(str[1]).m \in 1..12
  /\ IsoFields(str[1]).d \in 1..DaysInMonth(IsoFields(str[1]).y, IsoFields(str[1]).m)

\* the model answered with a JSON object that holds the three lists
WellFormedResponse ==
  /\ llmResult # NoResult
  /\ llmResult.rawResponse.kind = "json"
  /\ llmResult.rawResponse.body.assignments.present
  /\ llmResult.rawResponse.body.exams.present
  /\ llmResult.rawResponse.body.activities.present

Demoted(title, activities) ==
  \E i \in 1..Len(activities) : activities[i].title = title /\ activities[i].type = <<"other">>

\* C7: parseLLMResponse on a well-formed response succeeds, keeps in its
\* list every assignment and exam whose date is a real YYYY-MM-DD calendar
\* date, and moves every other one to the activities under its title.
C7_InvalidDatesDemoted ==
  WellFormedResponse =>
    LET body == llmResult.rawResponse.body
        parsed == parseLLMResponse(llmResult.rawResponse)
    IN  /\ parsed.success
        /\ \A i \in 1..Len(body.assignments.items) :
             LET a == body.assignments.items[i]
             IN  IF IsRealCalendarDate(a.due_date)
                 THEN a \in Range(parsed.data.assignments)
                 ELSE /\ a \notin Range(parsed.data.assignments)
                      /\ Demoted(a.title, parsed.data.activities)
        /\ \A i \in 1..Len(body.exams.items) :
             LET e == body.exams.items[i]
             IN  IF IsRealCalendarDate(e.date)
                 THEN e \in Range(parsed.data.exams)
                 ELSE /\ e \notin Range(parsed.data.exams)
                      /\ Demoted(e.title, parsed.data.activities)

\* the events hold one for the entry: of its own type at its own date, or
\* of type other at the placeholder date
HasEventFor(events, title, type, dateStr) ==
  \E i \in 1..Len(events) :
    /\ events[i].title = title
    /\ \/ /\ events[i].type = type
          /\ events[i].date.valid
          /\ events[i].date = LocalMidnight(dateStr)
       \/ /\ events[i].type = "other"
          /\ events[i].date = placeholderDate

\* C8: after a successful model-assisted parse every assignment and every
\* exam of the response has an event in the result: at its own date, or as
\* an undated event at the placeholder date.
C8_NoEntryLost ==
  (WellFormedResponse /\ llmResult.success) =>
    LET body == llmResult.rawResponse.body
        events == llmResult.data.events
    IN  /\ \A i \in 1..Len(body.assignments.items) :
             HasEventFor(events, body.assignments.items[i].title, "assignment",
                         body.assignments.items[i].due_date)
        /\ \A i \in 1..Len(body.exams.items) :
             HasEventFor(events, body.exams.items[i].title, "exam",
                         body.exams.items[i].date)

\* the model answered with a JSON object that lacks one of the three lists
LacksAList ==
  /\ llmResult # NoResult
  /\ llmResult.rawResponse.kind = "json"
  /\ \/ ~llmResult.rawResponse.body.assignments.present
     \/ ~llmResult.rawResponse.body.exams.present
     \/ ~llmResult.rawResponse.body.activities.present

\* C9: a JSON response that lacks one of assignments, exams, activities
\* makes parseSyllabusWithLLM return success false, method "fallback",
\* confidence 0 and no data.
C9_MissingListFails ==
  LacksAList =>
    /\ ~llmResult.success
    /\ llmResult.method = "fallback"
    /\ llmResult.confidence = 0
    /\ llmResult.data = NoData

C9_Witness ==
  /\ LacksAList
  /\ ~llmResult.rawResponse.body.activities.present
  /\ Len(llmResult.rawResponse.body.assignments.items) = 1
  /\ llmResult.rawResponse.body.exams.present
  /\ llmResult.error = "Missing required fields in LLM response"

FlagOff == env.ENABLE_LLM_PARSING # "true"

\* C10: with the flag other than "true", or without a credential, the model
\* is never called and parseSyllabusWithLLM returns success false, method
\* "fallback", confidence 0; with the flag off a parseSyllabus step leaves
\* the client and its initialised mark as they were.
C10_ShortCircuits ==
  /\ []((FlagOff \/ env.OPENAI_API_KEY = Undefined) =>
          /\ ~invoked
          /\ pc # "awaitModel"
          /\ llmResult # NoResult =>
               /\ ~llmResult.success
               /\ llmResult.method = "fallback"
               /\ llmResult.confidence = 0
               /\ llmResult.rawResponse = NoResponse)
  /\ [][(/\ FlagOff
         /\ \E text \in SampleTexts, meta \in Metas, ctorOk \in BOOLEAN :
              ParseSyllabus(text, meta, ctorOk))
        => UNCHANGED <<openai, isInitialized>>]_vars

C10_Witness ==
  /\ env.ENABLE_LLM_PARSING = "false"
  /\ env.OPENAI_API_KEY = "sk-key"
  /\ llmResult # NoResult
  /\ llmResult.error = "LLM parsing is disabled"
  /\ openai = Undefined
  /\ ~isInitialized

\* adjacent events are in date order
Ascending(events) ==
  \A i \in 1..(Len(events) - 1) :
    /\ events[i].date.valid
    /\ events[i + 1].date.valid
    /\ events[i].date.t <= events[i + 1].date.t

\* C11: in every successful result, of parseSyllabus, of the model path and
\* of the deterministic path, the events are ordered by date ascending.
C11_EventsAscending ==
  /\ (result # NoResult /\ ~result.threw /\ result.value.success)
       => Ascending(result.value.data.events)
  /\ (llmResult # NoResult /\ llmResult.success)
       => Ascending(llmResult.data.events)
  /\ (regexResult # NoResult /\ ~regexResult.threw /\ regexResult.value.success)
       => Ascending(regexResult.value.data.events)

\* the deterministic path built the December event first, from the date of
\* higher confidence, and returned it second
C11_Witness ==
  /\ result # NoResult
  /\ ~result.threw
  /\ result.value.success
  /\ result.value.method = "regex"
  /\ Len(result.value.data.events) = 2
  /\ result.value.data.events[1].date = DateAt(DayNumber(2025, 1, 20))
  /\ result.value.data.events[2].date = DateAt(DayNumber(2025, 12, 1))

\* the event lists the two extractors have returned
ReturnedEventLists ==
  (IF llmResult # NoResult /\ llmResult.success THEN {llmResult.data.events} ELSE {})
    \cup (IF regexResult # NoResult /\ ~regexResult.threw /\ regexResult.value.success
          THEN {regexResult.value.data.events} ELSE {})
    \cup (IF result # NoResult /\ ~result.threw /\ result.value.success
          THEN {result.value.data.events} ELSE {})

\* C12: every event an extractor has built carries a date that is not null
\* and is a valid date; the events the model path builds from activities,
\* the demoted entries included, carry the placeholder date.
C12_EventsHaveValidDates ==
  /\ \A events \in ReturnedEventLists : \A i \in 1..Len(events) :
       /\ events[i].date # NullDate
       /\ events[i].date.valid
  /\ (llmResult # NoResult /\ llmResult.success) =>
       \A i \in 1..Len(llmResult.data.events) :
         llmResult.data.events[i].type \in {"reading", "other"}
           => llmResult.data.events[i].date = placeholderDate

\* an undated assignment and a reading of the model came out as events at
\* the placeholder date
C12_Witness ==
  /\ llmResult # NoResult
  /\ llmResult.success
  /\ Len(llmResult.data.events) = 2
  /\ llmResult.data.events[1].type = "reading"
  /\ llmResult.data.events[2].title = <<"Essay 1">>
  /\ llmResult.data.events[2].type = "other"
  /\ llmResult.data.events[2].date = placeholderDate

\* C13: a successful parse returns, for each of courseName, courseCode,
\* semester and year the caller supplied, the caller's value, on the model
\* path and on the deterministic path.
C13_CallerMetadataWins ==
  (call # NoResult /\ result # NoResult /\ ~result.threw /\ result.value.success) =>
    LET data == result.value.data
        meta == call.meta
    IN  /\ meta.courseName # NULL => data.courseName = meta.courseName
        /\ meta.courseCode # NULL => data.courseCode = meta.courseCode
        /\ meta.semester # NULL => data.semester = meta.semester
        /\ meta.year # 0 => data.year = meta.year

\* C14: the confidence of every envelope parseSyllabus and
\* parseSyllabusWithLLM return lies in 0..100.
C14_ConfidenceInRange ==
  /\ (result # NoResult /\ ~result.threw) => result.value.confidence \in 0..100
  /\ llmResult # NoResult => llmResult.confidence \in 0..100

\* C15: a successful model-assisted parse has the confidence the model
\* reported whenever the response carries a confidence_score, 0 included,
\* and 85 when it carries none.
C15_ConfidenceIsReportedScore ==
  (llmResult # NoResult /\ llmResult.success) =>
    LET score == llmResult.rawResponse.body.confidence_score
    IN  /\ llmResult.confidence = (IF score.present THEN score.value ELSE 85)
        /\ result.value.confidence = llmResult.confidence

\* the dateResults of the last run of the deterministic path
DateResults == IF regexResult = NoResult THEN <<>> ELSE regexResult.dates

\* C16: parseDate resolves a 'week N' text against the reference date R to
\* R advanced by 7 * (N - 1) days with confidence medium; a text a template
\* parses is resolved by the template, with confidence high, and a relative
\* text is never left to the native parse.
C16_WeekNResolves ==
  \A i \in 1..Len(DateResults) :
    LET d == DateResults[i]
        n == RelativeNumber(d.originalText)
    IN  /\ ParseWithFormats(d.originalText).ok =>
             /\ d.confidence = "high"
             /\ d.date = ParseWithFormats(d.originalText).date
        /\ (~ParseWithFormats(d.originalText).ok /\ n.present) =>
             /\ d.confidence = "medium"
             /\ d.parsedFormat = "relative"
             /\ d.date.valid
             /\ d.date.t = Now.t + 7 * (n.value - 1) * 1440

\* C17: the results of extractDates hold no null date, at most one result
\* per matched text compared without case, and only texts that occur,
\* compared without case, in the text that was scanned.
C17_ExtractDatesResults ==
  call # NoResult =>
    /\ \A i \in 1..Len(DateResults) :
         /\ DateResults[i].date # NullDate
         /\ LineIncludes(cleanText(call.text), DateResults[i].originalText)
    /\ \A i, j \in 1..Len(DateResults) :
         i # j => ToLowerCase(DateResults[i].originalText)
                    # ToLowerCase(DateResults[j].originalText)

\* the scanned text holds a week twice, in two cases, and a slash date that
\* resolves to null; the results hold the week once and not the null date
C17_Witness ==
  /\ call # NoResult
  /\ "Week 3" \in Range(call.text)
  /\ "week 3" \in Range(call.text)
  /\ "13/45/2024" \in Range(call.text)
  /\ parseDate("13/45/2024", Now).date = NullDate
  /\ regexResult # NoResult
  /\ Len(regexResult.dates) = 2
  /\ regexResult.dates[1].originalText = "12/01/2025"
  /\ regexResult.dates[2].originalText = "Week 3"

\* C18: a model call that never settles still lets parseSyllabus return,
\* by the deterministic path with the model attempt counted as failed; an
\* insert that never settles still lets syncEvents record the event as
\* failed and go on.  In a state where the awaited call is one that never
\* settles, a step of the program that does so must be possible.
C18_OutboundCallsTimeOut ==
  /\ (pc = "awaitModel" /\ modelHung) =>
       ENABLED (/\ Next
                /\ pc' = "idle"
                /\ result' # NoResult
                /\ regexResult' # NoResult)
  /\ (syncPc = "awaitInsert" /\ insertHung) =>
       ENABLED (/\ SyncNext
                /\ Len(attempts') > Len(attempts)
                /\ attempts'[Len(attempts) + 1] = [event |-> syncIdx, outcome |-> "insert failed"])

\* the events of the last successful run of the deterministic path
RegexEvents ==
  IF regexResult # NoResult /\ ~regexResult.threw /\ regexResult.value.success
  THEN regexResult.value.data.events ELSE <<>>

\* every event's title is free of the date text the event was built from
TitlesFreeOfDateText ==
  \A i \in 1..Len(RegexEvents) : \A k \in 1..Len(DateResults) :
    DateResults[k].date = RegexEvents[i].date
      => ~LineIncludes(RegexEvents[i].title, DateResults[k].originalText)

\* the text is one line with one date text, which resolves to a date, and
\* assignment language
OneDatedAssignmentLine(text) ==
  /\ Len(SplitLines(text)) = 1
  /\ Len(MatchesFrom(text, 1)) = 1
  /\ parseDate(MatchesFrom(text, 1)[1], Now).date # NullDate
  /\ parseDate(MatchesFrom(text, 1)[1], Now).date.valid
  /\ \E i \in 1..Len(text) :
       \E k \in 1..Len(ASSIGNMENT_PATTERNS) :
         PatternMatchesWord(ASSIGNMENT_PATTERNS[k], ToLowerCase(text[i]))

OneAssignmentEvent ==
  (call # NoResult /\ regexResult # NoResult /\ OneDatedAssignmentLine(call.text)) =>
    /\ Len(RegexEvents) = 1
    /\ RegexEvents[1].type = "assignment"
    /\ RegexEvents[1].priority = "high"
    /\ RegexEvents[1].date = parseDate(MatchesFrom(call.text, 1)[1], Now).date

\* C19: on the deterministic path the title of every event is the line
\* without the date text that produced the event, whichever of the date
\* shapes it has; a text of one dated assignment line gives exactly one
\* event, of type assignment and priority high, at the resolved date.
C19_TitleWithoutDateText ==
  TitlesFreeOfDateText /\ OneAssignmentEvent

\* some pattern of the family has a match in the lower-cased line
FamilyMatches(family, line) ==
  \E k \in 1..Len(family) : \E i \in 1..Len(line) :
    PatternMatchesWord(family[k], ToLowerCase(line[i]))

\* the type and priority of the first family, in the fixed order, with a
\* match in the line
FirstFamily(line) ==
  IF FamilyMatches(ASSIGNMENT_PATTERNS, line) THEN [type |-> "assignment", priority |-> "high"]
  ELSE IF FamilyMatches(EXAM_PATTERNS, line) THEN [type |-> "exam", priority |-> "urgent"]
  ELSE IF FamilyMatches(READING_PATTERNS, line) THEN [type |-> "reading", priority |-> "medium"]
  ELSE IF FamilyMatches(DEADLINE_PATTERNS, line) THEN [type |-> "deadline", priority |-> "high"]
  ELSE [type |-> "other", priority |-> "medium"]

\* C20: every event of the deterministic path, whatever lines were
\* classified before its line, has the type and priority of the first of
\* the families assignment, exam, reading, deadline that matches its line,
\* and (other, medium) when none does.
C20_FirstFamilyDecides ==
  \A i \in 1..Len(RegexEvents) :
    /\ RegexEvents[i].type = FirstFamily(RegexEvents[i].description).type
    /\ RegexEvents[i].priority = FirstFamily(RegexEvents[i].description).priority

\* the events the last successful run of the deterministic path built,
\* in the order it built them
BuiltEvents ==
  IF regexResult # NoResult /\ ~regexResult.threw /\ regexResult.value.success
  THEN regexResult.built ELSE <<>>

\* C21: the events the deterministic extractor returns have pairwise
\* distinct ids; each is the first event built with its id and every id
\* built is returned; the result is in date order.
C21_DistinctIdsFirstKept ==
  /\ \A i, j \in 1..Len(RegexEvents) :
       i # j => RegexEvents[i].id # RegexEvents[j].id
  /\ \A i \in 1..Len(RegexEvents) :
       \E k \in 1..Len(BuiltEvents) :
         /\ BuiltEvents[k] = RegexEvents[i]
         /\ \A j \in 1..(k - 1) : BuiltEvents[j].id # BuiltEvents[k].id
  /\ \A k \in 1..Len(BuiltEvents) :
       \E i \in 1..Len(RegexEvents) : RegexEvents[i].id = BuiltEvents[k].id
  /\ Ascending(RegexEvents)

\* two events were built with one id, the second of another type than the
\* first, and the first is the one returned
C21_Witness ==
  /\ Len(BuiltEvents) = 2
  /\ BuiltEvents[1].id = BuiltEvents[2].id
  /\ BuiltEvents[1].type = "assignment"
  /\ BuiltEvents[2].type = "other"
  /\ RegexEvents = <<BuiltEvents[1]>>

RegexSucceeded ==
  call # NoResult /\ regexResult # NoResult /\ ~regexResult.threw
    /\ regexResult.value.success

\* the sum of the four terms of the score, before the penalty
UnpenalisedSum ==
  LET highs == {k \in 1..Len(DateResults) : DateResults[k].confidence = "high"}
      types == {RegexEvents[i].type : i \in 1..Len(RegexEvents)}
  IN  Min(10 * Len(DateResults), 30) + Min(5 * Len(RegexEvents), 25)
        + Min(5 * Cardinality(highs), 20) + 5 * Cardinality(types)

ShortInput == StrLen(cleanText(call.text)) < 500

\* the score of the claim: the sum, less 20 for a short text, within 0..100
ClaimedScore ==
  LET raw == UnpenalisedSum - (IF ShortInput THEN 20 ELSE 0)
  IN  IF raw < 0 THEN 0 ELSE IF raw > 100 THEN 100 ELSE raw

\* C22 as stated: the deterministic confidence is the sum min(10 * dates,
\* 30) + min(5 * events, 25) + min(5 * high-confidence dates, 20) + 5 * event
\* types, less 20 for a text under 500 characters, clamped to 0..100; for
\* a text under 500 characters it is at most the sum less 20 and at least 0.
C22_AsStated ==
  RegexSucceeded =>
    /\ regexResult.value.confidence = ClaimedScore
    /\ ShortInput =>
         /\ regexResult.value.confidence <= UnpenalisedSum - 20
         /\ regexResult.value.confidence >= 0

\* C22 amended: the same score; for a text under 500 characters it is the
\* sum less 20 when that is not negative, and 0 otherwise.
C22_ConfidenceFormula ==
  RegexSucceeded =>
    /\ regexResult.value.confidence = ClaimedScore
    /\ ShortInput =>
         regexResult.value.confidence =
           (IF UnpenalisedSum >= 20 THEN UnpenalisedSum - 20 ELSE 0)

\* the empty text: the sum is 0, the penalty makes it -20 and the score is 0
C22_Witness ==
  /\ RegexSucceeded
  /\ call.text = <<>>
  /\ ShortInput
  /\ UnpenalisedSum = 0
  /\ regexResult.value.confidence = 0

\* C23: every event mapped for the provider starts at the event's date and
\* ends 60 minutes later when its type is assignment or exam, 30 minutes
\* later for every other type.
C23_DurationWindow ==
  syncCall # NoResult =>
    \A k \in 1..Len(inserts) :
      LET event == syncCall.events[inserts[k].event]
          body == inserts[k].requestBody
      IN  /\ body.start = event.date
          /\ body.end.t - body.start.t =
               (IF event.type \in {"assignment", "exam"} THEN 60 ELSE 30)

\* the model call completed with a text that is no JSON, or whose trimmed
\* form does not end with "}"
NotCompleteJson ==
  /\ llmResult # NoResult
  /\ llmResult.rawResponse # NoResponse
  /\ \/ JSONParse(llmResult.rawResponse).threw
     \/ ~EndsWithBrace(llmResult.rawResponse)

\* C24: a model response that is no JSON, or whose trimmed text does not
\* end with "}", makes parseSyllabusWithLLM return success false with
\* method "fallback", and parseSyllabus runs the deterministic path.
C24_IncompleteResponseFails ==
  NotCompleteJson =>
    /\ ~llmResult.success
    /\ llmResult.method = "fallback"
    /\ llmResult.confidence = 0
    /\ regexResult # NoResult
    /\ result.value = regexResult.value

\* an object cut off before its end was received and the deterministic
\* path gave the result
C24_Witness ==
  /\ NotCompleteJson
  /\ llmResult.rawResponse.kind = "truncated"
  /\ ~EndsWithBrace(llmResult.rawResponse)
  /\ llmResult.error = "Invalid JSON response from LLM"
  /\ result.value.method = "regex"

\* C25: in a model-assisted result every undated item, an activity at the
\* placeholder date, comes after every dated assignment and exam.
C25_UndatedSortLast ==
  (llmResult # NoResult /\ llmResult.success) =>
    LET events == llmResult.data.events
    IN  \A i, j \in 1..Len(events) :
          (/\ events[i].type \in {"reading", "other"}
           /\ events[i].date = placeholderDate
           /\ events[j].type \in {"assignment", "exam"})
            => j < i

\* C27: all insert requests of one syncEvents call are made for the same
\* account, whatever set-credentials or auth-callback request is handled
\* while the call awaits an insert.
C27_OneAccountPerSync ==
  \A i, j \in 1..Len(inserts) : inserts[i].account = inserts[j].account

GatedReply ==
  /\ reply # NoResult
  /\ reply.route \in GatedRoutes
  /\ reply.status # 400

\* C28: in the long-lived server the calendar credentials are one value for
\* the whole process, the one the last auth-callback or set-credentials
\* request of any client installed; a sync-events, calendars or
\* create-calendar request is let through exactly when that value holds an
\* access token, whoever sends it, and then acts on that token's account;
\* it is answered 401 only when no client's token is installed.
C28_ProcessWideCredentials ==
  /\ credentials = installed.tokens
  /\ GatedReply =>
       /\ reply.status # 401 <=> isAuthenticated(installed.tokens)
       /\ reply.status # 401 => reply.account = installed.tokens.access_token
       /\ reply.status = 401 =>
            \A client \in Clients :
              installed.client = client => ~isAuthenticated(installed.tokens)

\* bob, who installed nothing, was served on the account whose token alice
\* installed
C28_Witness ==
  /\ GatedReply
  /\ reply.client = "bob"
  /\ reply.status = 200
  /\ reply.account = "token-a"
  /\ installed.client = "alice"
\* the service exists and no request has installed credentials in it
FreshService == googleCalendarService /\ installed = NoInstall

NotAuthenticated == "Not authenticated"

\* what C29 says of one step that calls getCalendars or createCalendar
GuardedStep ==
  /\ isAuthenticated(credentials) => methodCall'.error # NotAuthenticated
  /\ FreshService => /\ methodCall'.threw
                     /\ methodCall'.error = NotAuthenticated
                     /\ ~methodCall'.contacted

\* and of one step that calls syncEvents
GuardedSyncStep ==
  /\ isAuthenticated(credentials) => syncReturn' # Thrown(NotAuthenticated)
  /\ FreshService => /\ syncReturn' = Thrown(NotAuthenticated)
                     /\ inserts' = <<>>

\* a route passed its isAuthenticated() check and called the service
RoutePassed == reply'.status \notin {400, 401}

\* C29: in every reachable state of the service, isAuthenticated() being
\* true implies that the calendar handle is set, so a syncEvents,
\* getCalendars or createCalendar call made while isAuthenticated() is
\* true, by a route right after its check or by any other caller, never
\* throws 'Not authenticated'; on a service in which nothing has been
\* installed isAuthenticated() is false and the three operations throw
\* 'Not authenticated' and send the provider nothing.
C29_AuthenticatedHasHandle ==
  /\ [](isAuthenticated(credentials) => calendar)
  /\ [](FreshService => ~isAuthenticated(credentials))
  /\ [][/\ (\E ok \in BOOLEAN : GetCalendarsCall(ok) \/ CreateCalendarCall(ok))
             => GuardedStep
        /\ (\E events \in ServerEventLists, calendarId \in CalendarIds :
              ServiceSyncEvents(events, calendarId))
             => GuardedSyncStep
        /\ (\E client \in Clients, ok \in BOOLEAN :
              (CalendarsRequest(client, ok) \/ CreateCalendarRequest(client, TRUE, ok))
              /\ RoutePassed)
             => methodCall'.error # NotAuthenticated
        /\ (\E client \in Clients, events \in ServerEventLists, calendarId \in CalendarIds :
              SyncEventsRequest(client, TRUE, events, calendarId) /\ RoutePassed)
             => syncReturn' # Thrown(NotAuthenticated)]_vars

\* syncEvents threw on the service while nothing was installed in it, and
\* later, with a token installed, a guarded operation reached the provider
C29_Witness ==
  /\ syncReturn = Thrown(NotAuthenticated)
  /\ inserts = <<>>
  /\ isAuthenticated(credentials)
  /\ calendar
  /\ methodCall # NoResult
  /\ methodCall.contacted
====
